---- MODULE Spec2Model ----
(***************************************************************************)
(* A model of the X-Bookmark Knowledge Repository: the thread fetcher      *)
(* (tools/twitter_fetcher.py), the bulk importer (tools/bulk_import.py),   *)
(* the file-to-database migration (scripts/migrate_to_supabase.py), the    *)
(* description backfill (scripts/backfill_image_descriptions.py), the chat *)
(* bot's archive conversation (tools/telegram_bot.py) and the database     *)
(* client (src/supabase/client.py).                                        *)
(***************************************************************************)
EXTENDS Integers, Sequences, FiniteSets, TLC

\* ------------------------------------------------------------------------
\* Bounds of the model
\* ------------------------------------------------------------------------
\* max_depth is drawn from 0..MaxDepth
MaxDepth == 3
\* the "thread.tweets" array of a response holds at most MaxThread tweets
\* after its first one
MaxThread == 2
\* the longest export
MaxExport == 2
\* how many times bulk import is run on one export
MaxRuns == 2
\* the most post files a migration finds
MaxFiles == 2
\* the most rows of post_media before a backfill
MaxMediaRows == 3
\* the most saves the bot attempts
MaxSaves == 2
\* ids the vector store is called with, and the largest n_results
MaxVectors == 3
MaxResults == 2

\* ------------------------------------------------------------------------
\* Values
\* ------------------------------------------------------------------------
\* Python's None / JSON null
None == "None"
\* a string variable that holds nothing yet
Unset == "Unset"
\* None where a tweet id is expected (ids are positive)
NoId == 0
\* An optional value is a sequence: <<>> for None, <<v>> for the value v
Nothing == <<>>
Some(v) == <<v>>
\* a tweet object variable that holds nothing yet
NoData == [id |-> NoId]

\* The tweets the mirror APIs know. 99, 100 and 101 are written by the same
\* account (its handle is spelled "Alice" on 99), 98 by another one.
TweetIds == {98, 99, 100, 101}

AuthorOf(i) ==
  CASE i = 98 -> "bob"
    [] i = 99 -> "Alice"
    [] i = 100 -> "alice"
    [] i = 101 -> "alice"

Handles == {"alice", "Alice", "bob"}

\* str.lower() on the handles of the model
Lower(h) == IF h = "Alice" THEN "alice" ELSE h

\* the handles a "replying_to" field is drawn from
ReplyHandles == {"Alice", "bob"}

Range(s) == {s[k] : k \in 1..Len(s)}
Min(a, b) == IF a <= b THEN a ELSE b
Max(a, b) == IF a >= b THEN a ELSE b
Last(s) == s[Len(s)]

RECURSIVE SeqsUpTo(_, _)
\* the sequences over S of length at most n that repeat no element
SeqsUpTo(S, n) ==
  IF n = 0 THEN {<<>>}
  ELSE LET shorter == SeqsUpTo(S, n - 1) IN
       shorter \cup {Append(p[1], p[2]) :
                      p \in {q \in shorter \X S : Len(q[1]) = n - 1 /\ q[2] \notin Range(q[1])}}

\* The fields fetch_thread reads of the "tweet" object FxTwitter returns for
\* tweet i. "replying_to" and "replying_to_status" are both null or both
\* set; the handle need not be the handle of the parent's author, and the
\* parent pointers may form any graph. "thread" is absent (Nothing) or holds
\* the array thread.tweets, whose first element is tweet i itself.
FxData(i, rt, rts, th) ==
  [id |-> i, author |-> AuthorOf(i), replying_to |-> rt,
   replying_to_status |-> rts, thread |-> th]

ThreadArrays(i) ==
  {Nothing} \cup {Some(<<i>> \o r) : r \in SeqsUpTo(TweetIds, MaxThread)}

\* What FxTwitter may answer for tweet i. Only the response for the origin
\* tweet is read for its "thread" field (line 216), so a parent's response
\* carries none.
FxResponses(i, origin) ==
  {FxData(i, None, NoId, th) : th \in (IF origin THEN ThreadArrays(i) ELSE {Nothing})}
  \cup {FxData(i, h, p, th) : h \in ReplyHandles, p \in TweetIds,
                              th \in (IF origin THEN ThreadArrays(i) ELSE {Nothing})}

\* the tweet object embedded in a thread.tweets array
ThreadTweetData(i) == FxData(i, None, NoId, Nothing)

\* What VxTwitter answers for tweet i
VxData(i) == [tweetID |-> i, user_screen_name |-> AuthorOf(i)]

\* ------------------------------------------------------------------------
\* URLs
\* ------------------------------------------------------------------------
\* A URL is https://<host>/<seg>/status/<id> (form "status"),
\* https://<host>/i/web/status/<id> (form "web") or
\* https://<host>/<seg> (form "profile").
Hosts == {"twitter.com", "x.com", "fxtwitter.com", "vxtwitter.com",
          "fixupx.com", "example.com"}

Url(h, s, f, i) == [host |-> h, seg |-> s, form |-> f, id |-> i]

\* re.search is not anchored: "(?:twitter|x)\.com" also matches inside
\* fxtwitter.com, vxtwitter.com and fixupx.com
MatchesTwitterOrX(host) ==
  host \in {"twitter.com", "x.com", "fxtwitter.com", "vxtwitter.com", "fixupx.com"}

MatchesMirror(host) == host \in {"fxtwitter.com", "vxtwitter.com", "fixupx.com"}

extract_tweet_id(u) ==
  IF MatchesTwitterOrX(u.host) /\ u.form = "status" THEN u.id
  ELSE IF MatchesTwitterOrX(u.host) /\ u.form = "web" THEN u.id
  ELSE IF MatchesMirror(u.host) /\ u.form = "status" THEN u.id
  ELSE NoId

\* twitter_fetcher.py lines 86-88: the path segments that are no handle
ReservedSegments == {"i", "intent", "share"}

\* twitter_fetcher.py line 84: "(?:twitter|x|fxtwitter|vxtwitter)\.com/(\w+)/status/",
\* not anchored either, so that "x\.com" is found inside fixupx.com
MatchesHandleHost(host) ==
  host \in {"twitter.com", "x.com", "fxtwitter.com", "vxtwitter.com", "fixupx.com"}

\* twitter_fetcher.py lines 82-90; "/(\w+)/status/" does not match
\* "/i/web/status/", because \w+ has to follow ".com/" directly
extract_handle(u) ==
  IF MatchesHandleHost(u.host) /\ u.form = "status"
  THEN IF u.seg \notin ReservedSegments THEN u.seg ELSE None
  ELSE None

\* utils.py lines 22-32: the first two patterns only
extract_post_id(u) ==
  IF MatchesTwitterOrX(u.host) /\ u.form = "status" THEN u.id
  ELSE IF MatchesTwitterOrX(u.host) /\ u.form = "web" THEN u.id
  ELSE NoId

\* utils.py lines 35-40: extract_handle of the shared utilities, which
\* returns the matched segment whatever it is
utils_extract_handle(u) ==
  IF MatchesTwitterOrX(u.host) /\ u.form = "status" THEN u.seg ELSE None

\* the first path segments of the URLs given to the extractors
Segments == {"alice", "Alice", "bob"} \cup ReservedSegments

\* the URLs given to the extractors
HelperUrls ==
  {Url(h, s, f, i) : h \in Hosts, s \in Segments, f \in {"status", "profile"},
                     i \in {98, 99, 100, 101}}
  \cup {Url(h, "i", "web", i) : h \in Hosts, i \in {98, 99, 100, 101}}

\* the URLs fetch_thread is called with
FetchUrls ==
  {Url("x.com", "alice", "status", 100),
   Url("fxtwitter.com", "alice", "status", 101),
   Url("twitter.com", "i", "web", 101),
   Url("x.com", "alice", "profile", 100),
   Url("example.com", "alice", "status", 100)}

\* ------------------------------------------------------------------------
\* State
\* ------------------------------------------------------------------------
VARIABLES
  \* --- fetch_thread (tools/twitter_fetcher.py) ---
  api,            \* what FxTwitter has answered so far, per tweet id
  tweet_url,      \* argument of fetch_thread
  max_depth,      \* argument of fetch_thread
  pc_f,           \* position in fetch_thread
  tweet_id,       \* local
  source,         \* local
  data,           \* local
  tweets,         \* local: sequence of Tweet
  author_handle,  \* local
  depth,          \* local
  current_data,   \* local
  result,         \* what fetch_thread returned
  net,            \* the network calls and sleeps made, in order
  \* --- bulk import (tools/bulk_import.py) ---
  index_posts,    \* data/index.json: the ids of index["posts"]
  post_files,     \* archive/posts: the post files, by post id
  vector_ids,     \* the ids held by the vector store
  vector_docs,    \* what bulk import had embedded and indexed for each of them
  urls,           \* main: the URLs parse_notion_export returned
  dry_run,        \* main: args.dry_run
  pc_b,           \* position in main
  new_urls,       \* main: local
  duplicate_urls, \* main: local
  fi,             \* fetch_posts: loop index
  successes,      \* fetch_posts: local
  failures,       \* fetch_posts: local
  attempts,       \* the URLs fetch_thread was called with in this run
  mem_index,      \* save_posts: the index loaded in memory
  si,             \* save_posts: loop index
  saved_ids,      \* save_posts: local
  run,            \* how many times main has been started
  runlog,         \* what the earlier runs did
  \* --- the database (src/supabase/client.py) ---
  posts,          \* table posts: the row of each id
  media,          \* table post_media: its rows, the id of a row is its place
  \* --- migration (scripts/migrate_to_supabase.py) ---
  m_files,        \* get_all_post_files(): the post files, sorted
  m_dry_run,      \* argument of migrate_posts
  m_force,        \* argument of migrate_posts
  m_embedder,     \* whether the embedding service could be loaded
  pc_m,           \* position in migrate_posts
  mi,             \* migrate_posts: loop index
  stats,          \* migrate_posts: local
  m_log,          \* what happened to each file, in order
  \* --- backfill (scripts/backfill_image_descriptions.py) ---
  k_dry_run,      \* argument of backfill_descriptions
  k_limit,        \* argument of backfill_descriptions (0 for None)
  k_regen,        \* argument regenerate_embeddings
  pc_k,           \* position in backfill_descriptions
  media_items,    \* backfill_descriptions: local, the ids of the rows read
  ki,             \* backfill_descriptions: loop index
  success_count,  \* backfill_descriptions: local
  error_count,    \* backfill_descriptions: local
  affected_post_ids, \* backfill_descriptions: local
  k_log,          \* what happened to each media item, in order
  k_run,          \* how many times backfill_descriptions has been started
  k_before,       \* the media ids that earlier runs updated
  \* --- the chat bot (tools/telegram_bot.py) ---
  conv,           \* the conversation state of each chat
  user_data,      \* context.user_data of each chat
  bot_log,        \* what the bot's saves did, in order
  t_last,         \* how the last conversation that ended did end
  \* --- the vector store (src/embeddings/vector_store.py) ---
  collection,     \* the entries of the ChromaDB collection "posts", in order of arrival
  v_added,        \* the ids added by add_post and not deleted since
  v_last,         \* the last call of the vector store and what it returned
  \* --- the image extractor (src/vision/extractor.py) ---
  x_last,         \* the last call of describe_image and what it returned
  \* --- the URL helpers (tools/utils.py, tools/twitter_fetcher.py) ---
  u_last,         \* the last URL given to the extractors and what they returned
  \* --- the metadata of a vector index entry (src/embeddings/vector_store.py) ---
  f_last,         \* the last metadata given to add_post and what was stored
  \* --- the construction of the database client (src/supabase/client.py) ---
  environ,        \* os.environ: the names that are set
  module_env,     \* the module's SUPABASE_URL and SUPABASE_KEY, once imported
  singleton,      \* the module's _client
  s_last          \* the last construction asked for and how it ended

fvars == <<api, tweet_url, max_depth, pc_f, tweet_id, source, data, tweets,
           author_handle, depth, current_data, result, net>>

\* bulk import: what is on disk, the input, and the locals
bstore == <<index_posts, post_files, vector_ids, vector_docs>>
binput == <<urls, dry_run>>
bmain == <<new_urls, duplicate_urls>>
bfetch == <<fi, successes, failures, attempts>>
bsave == <<mem_index, si, saved_ids>>
bruns == <<run, runlog>>
bvars == <<bstore, binput, pc_b, bmain, bfetch, bsave, bruns>>

dvars == <<posts, media>>
margs == <<m_files, m_dry_run, m_force, m_embedder>>
mvars == <<margs, pc_m, mi, stats, m_log>>
\* the arguments of a run and what the runs before it did
kargs == <<k_dry_run, k_limit, k_regen, k_run, k_before>>
kvars == <<kargs, pc_k, media_items, ki, success_count, error_count,
           affected_post_ids, k_log>>
tvars == <<conv, user_data, bot_log, t_last>>
vvars == <<collection, v_added, v_last>>
xvars == <<x_last>>
svars == <<environ, module_env, singleton, s_last>>
hvars == <<u_last, f_last, svars>>

\* what bulk import and fetch_thread leave alone
notbulk == <<dvars, mvars, kvars, tvars, vvars, xvars, hvars>>
\* what fetch_thread leaves alone
notfetch == <<bvars, notbulk>>
\* what migrate_posts leaves alone
notmigrate == <<fvars, bvars, kvars, tvars, vvars, xvars, hvars>>
\* what backfill_descriptions leaves alone
notbackfill == <<fvars, bvars, mvars, tvars, vvars, xvars, hvars>>
\* what the bot leaves alone
notbot == <<fvars, bvars, mvars, kvars, vvars, xvars, hvars>>
\* what the vector store leaves alone
notvector == <<fvars, bvars, dvars, mvars, kvars, tvars, xvars, hvars>>
\* what the image extractor leaves alone
notvision == <<fvars, bvars, dvars, mvars, kvars, tvars, vvars, hvars>>

\* everything that is not a helper's call
nothelpers == <<fvars, bvars, dvars, mvars, kvars, tvars, vvars, xvars>>

vars == <<fvars, bvars, dvars, mvars, kvars, tvars, vvars, xvars, hvars>>

\* ------------------------------------------------------------------------
\* tools/twitter_fetcher.py
\* ------------------------------------------------------------------------
\* Tweet (the fields the callers read)
Tweet(i, a) == [id |-> i, author_handle |-> a]

\* Thread
Thread(tw, ah) ==
  [kind |-> "Thread", tweets |-> tw, author_handle |-> ah, total_count |-> Len(tw)]

\* fetch_thread returned None
ReturnedNone == [kind |-> "None"]
\* fetch_thread has not returned
NotReturned == [kind |-> "running"]

parse_tweet_data(d, src) ==
  IF src = "fxtwitter" THEN Tweet(d.id, d.author)
  ELSE Tweet(d.tweetID, d.user_screen_name)

\* How a request to FxTwitter ends
FxOutcomes == {"ok", "non200", "code_not_200", "exception"}

\* fetch_tweet_fxtwitter: the tweet object, or None
fetch_tweet_fxtwitter(outcome, answer) ==
  IF outcome = "ok" THEN Some(answer) ELSE Nothing

\* How a request to VxTwitter ends
VxOutcomes == {"ok", "non200", "exception"}

\* fetch_tweet_vxtwitter: the JSON body, or None
fetch_tweet_vxtwitter(outcome, answer) ==
  IF outcome = "ok" THEN Some(answer) ELSE Nothing

\* what FxTwitter serves for tweet i: what it served before, if anything
Served(i, origin) ==
  IF api[i] # Nothing THEN {api[i][1]} ELSE FxResponses(i, origin)

Call(mirror, i, site, ok) == [op |-> mirror, id |-> i, site |-> site, ok |-> ok]
Sleep == [op |-> "sleep", id |-> NoId, site |-> "walk", ok |-> TRUE]

\* the locals of fetch_thread before the call
FetchLocalsInit ==
  /\ tweet_id = NoId
  /\ source = Unset
  /\ data = NoData
  /\ tweets = <<>>
  /\ author_handle = Unset
  /\ depth = 0
  /\ current_data = NoData
  /\ result = NotReturned
  /\ net = <<>>

\* lines 192-197
FT_Extract ==
  /\ pc_f = "start"
  /\ LET tid == extract_tweet_id(tweet_url) IN
     IF tid = NoId
     THEN /\ result' = ReturnedNone
          /\ pc_f' = "done"
          /\ UNCHANGED tweet_id
     ELSE /\ tweet_id' = tid
          /\ pc_f' = "fetch_fx"
          /\ UNCHANGED result
  /\ UNCHANGED <<api, tweet_url, max_depth, source, data, tweets,
                 author_handle, depth, current_data, net>>
  /\ UNCHANGED notfetch

\* lines 211-213, after a mirror answered d
MainTweet(d, src) ==
  /\ data' = d
  /\ source' = src
  /\ tweets' = <<parse_tweet_data(d, src)>>
  /\ author_handle' = parse_tweet_data(d, src).author_handle
  /\ pc_f' = "forward"

\* mutant of FxOriginFailed: no fallback, None at once
FxOriginFailed_NoFallback ==
  /\ pc_f' = "done"
  /\ result' = ReturnedNone

\* lines 203-205: FxTwitter gave no data, fall back to VxTwitter
FxOriginFailed ==
  /\ pc_f' = "fetch_vx"
  /\ UNCHANGED result

\* lines 200-203 (and 211-213 when FxTwitter answers)
FT_FetchFx ==
  /\ pc_f = "fetch_fx"
  /\ \/ \E answer \in Served(tweet_id, TRUE) :
          LET d == fetch_tweet_fxtwitter("ok", answer)[1] IN
          /\ api' = [api EXCEPT ![tweet_id] = Some(answer)]
          /\ net' = Append(net, Call("fx", tweet_id, "origin", TRUE))
          /\ MainTweet(d, "fxtwitter")
          /\ UNCHANGED result
     \/ \E o \in FxOutcomes \ {"ok"} :
          /\ fetch_tweet_fxtwitter(o, NoData) = Nothing
          /\ net' = Append(net, Call("fx", tweet_id, "origin", FALSE))
          /\ FxOriginFailed
          /\ UNCHANGED <<api, data, source, tweets, author_handle>>
  /\ UNCHANGED <<tweet_url, max_depth, tweet_id, depth, current_data>>
  /\ UNCHANGED notfetch

\* lines 203-209 (and 211-213 when VxTwitter answers)
FT_FetchVx ==
  /\ pc_f = "fetch_vx"
  /\ \/ LET d == fetch_tweet_vxtwitter("ok", VxData(tweet_id))[1] IN
          /\ net' = Append(net, Call("vx", tweet_id, "origin", TRUE))
          /\ MainTweet(d, "vxtwitter")
          /\ UNCHANGED result
     \/ \E o \in VxOutcomes \ {"ok"} :
          /\ fetch_tweet_vxtwitter(o, NoData) = Nothing
          /\ net' = Append(net, Call("vx", tweet_id, "origin", FALSE))
          /\ result' = ReturnedNone
          /\ pc_f' = "done"
          /\ UNCHANGED <<data, source, tweets, author_handle>>
  /\ UNCHANGED <<api, tweet_url, max_depth, tweet_id, depth, current_data>>
  /\ UNCHANGED notfetch

\* thread_data.get("tweets", [])[1:]
SkipFirst(arr) == IF arr = <<>> THEN <<>> ELSE Tail(arr)

RECURSIVE ForwardLoop(_, _, _, _)
\* lines 219-224: the loop over the rest of thread.tweets
ForwardLoop(tw, rest, md, ah) ==
  IF rest = <<>> THEN tw
  ELSE IF Len(tw) >= md THEN tw
  ELSE LET tweet == parse_tweet_data(ThreadTweetData(Head(rest)), "fxtwitter") IN
       ForwardLoop(IF Lower(tweet.author_handle) = Lower(ah)
                   THEN Append(tw, tweet) ELSE tw,
                   Tail(rest), md, ah)

\* lines 216-224
FT_Forward ==
  /\ pc_f = "forward"
  /\ tweets' = IF source = "fxtwitter" /\ data.thread # Nothing
               THEN ForwardLoop(tweets, SkipFirst(data.thread[1]), max_depth, author_handle)
               ELSE tweets
  /\ pc_f' = "parent_check"
  /\ UNCHANGED <<api, tweet_url, max_depth, tweet_id, source, data,
                 author_handle, depth, current_data, result, net>>
  /\ UNCHANGED notfetch

\* mutant of SameAuthorParent: the parent's author is not compared
SameAuthorParent_AnyAuthor(d, ah) ==
  /\ d.replying_to # None
  /\ d.replying_to_status # NoId

\* line 232: only fetch the parent if it has the same author
SameAuthorParent(d, ah) ==
  /\ d.replying_to # None
  /\ Lower(d.replying_to) = Lower(ah)
  /\ d.replying_to_status # NoId

\* lines 227-232
FT_ParentCheck ==
  /\ pc_f = "parent_check"
  /\ pc_f' = IF source = "fxtwitter" /\ data.replying_to # None
                /\ SameAuthorParent(data, author_handle)
             THEN "fetch_parent" ELSE "return"
  /\ UNCHANGED <<api, tweet_url, max_depth, tweet_id, source, data, tweets,
                 author_handle, depth, current_data, result, net>>
  /\ UNCHANGED notfetch

\* mutant of InsertFront: the parent is appended
InsertFront_AtEnd(t, tw) == Append(tw, t)

\* lines 237 and 255: tweets.insert(0, t)
InsertFront(t, tw) == <<t>> \o tw

\* mutant of ParentFetchFailed: the failure makes fetch_thread return None
ParentFetchFailed_ReturnsNone ==
  /\ pc_f' = "done"
  /\ result' = ReturnedNone
  /\ UNCHANGED tweets

\* lines 234 and 251-252: no parent data, so the walk ends and the thread
\* built so far is returned
ParentFetchFailed ==
  /\ pc_f' = "return"
  /\ UNCHANGED <<tweets, result>>

\* lines 233-241
FT_FetchParent ==
  /\ pc_f = "fetch_parent"
  /\ LET parent_id == data.replying_to_status IN
     \/ \E answer \in Served(parent_id, FALSE) :
          LET parent_data == fetch_tweet_fxtwitter("ok", answer)[1] IN
          /\ api' = [api EXCEPT ![parent_id] = Some(answer)]
          /\ net' = Append(net, Call("fx", parent_id, "parent", TRUE))
          /\ tweets' = InsertFront(parse_tweet_data(parent_data, "fxtwitter"), tweets)
          /\ depth' = 1
          /\ current_data' = parent_data
          /\ pc_f' = "walk"
          /\ UNCHANGED result
     \/ \E o \in FxOutcomes \ {"ok"} :
          /\ fetch_tweet_fxtwitter(o, NoData) = Nothing
          /\ net' = Append(net, Call("fx", parent_id, "parent", FALSE))
          /\ ParentFetchFailed
          /\ UNCHANGED <<api, depth, current_data>>
  /\ UNCHANGED <<tweet_url, max_depth, tweet_id, source, data, author_handle>>
  /\ UNCHANGED notfetch

\* lines 242-246: whether the while loop goes on to fetch another parent
WalkGoesOn(d, dep, md, ah) ==
  /\ dep < md
  /\ d.replying_to_status # NoId
  /\ Lower(d.replying_to) = Lower(ah)

\* lines 242-246
FT_Walk ==
  /\ pc_f = "walk"
  /\ pc_f' = IF WalkGoesOn(current_data, depth, max_depth, author_handle)
             THEN "fetch_grandparent" ELSE "return"
  /\ UNCHANGED <<api, tweet_url, max_depth, tweet_id, source, data, tweets,
                 author_handle, depth, current_data, result, net>>
  /\ UNCHANGED notfetch

\* lines 248-257
FT_FetchGrandparent ==
  /\ pc_f = "fetch_grandparent"
  /\ LET grandparent_id == current_data.replying_to_status IN
     \/ \E answer \in Served(grandparent_id, FALSE) :
          LET grandparent_data == fetch_tweet_fxtwitter("ok", answer)[1] IN
          /\ api' = [api EXCEPT ![grandparent_id] = Some(answer)]
          /\ net' = Append(net, Call("fx", grandparent_id, "parent", TRUE))
          /\ tweets' = InsertFront(parse_tweet_data(grandparent_data, "fxtwitter"), tweets)
          /\ current_data' = grandparent_data
          /\ depth' = depth + 1
          /\ pc_f' = "sleep"
          /\ UNCHANGED result
     \/ \E o \in FxOutcomes \ {"ok"} :
          /\ fetch_tweet_fxtwitter(o, NoData) = Nothing
          /\ net' = Append(net, Call("fx", grandparent_id, "parent", FALSE))
          /\ ParentFetchFailed
          /\ UNCHANGED <<api, depth, current_data>>
  /\ UNCHANGED <<tweet_url, max_depth, tweet_id, source, data, author_handle>>
  /\ UNCHANGED notfetch

\* line 260
FT_Sleep ==
  /\ pc_f = "sleep"
  /\ net' = Append(net, Sleep)
  /\ pc_f' = "walk"
  /\ UNCHANGED <<api, tweet_url, max_depth, tweet_id, source, data, tweets,
                 author_handle, depth, current_data, result>>
  /\ UNCHANGED notfetch

\* lines 262-267
FT_Return ==
  /\ pc_f = "return"
  /\ result' = Thread(tweets, author_handle)
  /\ pc_f' = "done"
  /\ UNCHANGED <<api, tweet_url, max_depth, tweet_id, source, data, tweets,
                 author_handle, depth, current_data, net>>
  /\ UNCHANGED notfetch

\* fetch_thread, one step
FetchStep ==
  \/ FT_Extract
  \/ FT_FetchFx
  \/ FT_FetchVx
  \/ FT_Forward
  \/ FT_ParentCheck
  \/ FT_FetchParent
  \/ FT_Walk
  \/ FT_FetchGrandparent
  \/ FT_Sleep
  \/ FT_Return

\* ------------------------------------------------------------------------
\* tools/bulk_import.py
\* ------------------------------------------------------------------------
\* fetch_thread(tweet_url, max_depth=25)
DefaultMaxDepth == 25

\* f with key k set to v
Put(f, k, v) == [x \in DOMAIN f \cup {k} |-> IF x = k THEN v ELSE f[x]]

\* normalize_twitter_url: every URL of the export is rewritten to
\* https://x.com/<handle>/status/<id>
normalize_twitter_url(h, i) == Url("x.com", h, "status", i)

BulkUrls ==
  {normalize_twitter_url("alice", 100),
   normalize_twitter_url("alice", 101),
   normalize_twitter_url("bob", 98)}

\* parse_notion_export: the URLs of the export, each once, in order
Exports == SeqsUpTo(BulkUrls, MaxExport)

\* What the mirrors know during a bulk import: no tweet is a reply; or 101
\* replies to 100 and 100 to 99; or 100 starts a thread continued by 101.
BulkWorlds ==
  {[i \in TweetIds |-> Some(FxData(i, None, NoId, Nothing))],
   [i \in TweetIds |->
      Some(IF i = 100 THEN FxData(100, "Alice", 99, Nothing)
           ELSE IF i = 101 THEN FxData(101, "Alice", 100, Nothing)
           ELSE FxData(i, None, NoId, Nothing))],
   [i \in TweetIds |->
      Some(IF i = 100 THEN FxData(100, None, NoId, Some(<<100, 101>>))
           ELSE FxData(i, None, NoId, Nothing))]}

\* tools.utils.check_duplicate: the id is looked up in the index
check_duplicate(post_id) == post_id \in index_posts

\* mutant of IsDuplicate: nothing is taken for a duplicate
IsDuplicate_Never(url) == FALSE

\* lines 102-103
IsDuplicate(url) ==
  LET tid == extract_tweet_id(url) IN tid # NoId /\ check_duplicate(tid)

RECURSIVE check_duplicates(_, _, _)
\* lines 96-108: <<new_urls, duplicate_urls>>
check_duplicates(us, new, dup) ==
  IF us = <<>> THEN <<new, dup>>
  ELSE IF IsDuplicate(Head(us))
       THEN check_duplicates(Tail(us), new, Append(dup, Head(us)))
       ELSE check_duplicates(Tail(us), Append(new, Head(us)), dup)

\* the locals of main before it starts
BulkLocalsInit ==
  /\ new_urls = <<>>
  /\ duplicate_urls = <<>>
  /\ fi = 0
  /\ successes = <<>>
  /\ failures = <<>>
  /\ attempts = <<>>
  /\ mem_index = {}
  /\ si = 0
  /\ saved_ids = <<>>

\* lines 438-444
main_parse ==
  /\ pc_b = "start"
  /\ pc_b' = IF urls = <<>> THEN "exit" ELSE "check_duplicates"
  /\ UNCHANGED <<fvars, bstore, binput, bmain, bfetch, bsave, bruns>>
  /\ UNCHANGED notbulk

\* lines 446-448
main_check_duplicates ==
  /\ pc_b = "check_duplicates"
  /\ new_urls' = check_duplicates(urls, <<>>, <<>>)[1]
  /\ duplicate_urls' = check_duplicates(urls, <<>>, <<>>)[2]
  /\ pc_b' = "preflight"
  /\ UNCHANGED <<fvars, bstore, binput, bfetch, bsave, bruns>>
  /\ UNCHANGED notbulk

\* a pre-flight report that does not look at dry_run
main_preflight_IgnoresDryRun ==
  /\ pc_b = "preflight"
  /\ \E answer \in BOOLEAN :
       LET proceed == IF new_urls = <<>> THEN FALSE ELSE answer
       IN pc_b' = IF proceed THEN "fetch" ELSE "exit"
  /\ fi' = 1
  /\ UNCHANGED <<fvars, bstore, binput, bmain, successes, failures, attempts,
                 bsave, bruns>>
  /\ UNCHANGED notbulk

\* show_preflight_report (lines 111-141) and lines 450-460 of main
main_preflight ==
  /\ pc_b = "preflight"
  /\ \E answer \in BOOLEAN :
       LET proceed == IF dry_run THEN FALSE
                      ELSE IF new_urls = <<>> THEN FALSE
                      ELSE answer
       IN pc_b' = IF proceed THEN "fetch" ELSE "exit"
  /\ fi' = 1
  /\ UNCHANGED <<fvars, bstore, binput, bmain, successes, failures, attempts,
                 bsave, bruns>>
  /\ UNCHANGED notbulk

\* lines 150-155: the next URL is handed to fetch_thread
FP_Call ==
  /\ pc_b = "fetch"
  /\ fi <= Len(new_urls)
  /\ tweet_url' = new_urls[fi]
  /\ max_depth' = DefaultMaxDepth
  /\ pc_f' = "start"
  /\ tweet_id' = NoId
  /\ source' = Unset
  /\ data' = NoData
  /\ tweets' = <<>>
  /\ author_handle' = Unset
  /\ depth' = 0
  /\ current_data' = NoData
  /\ result' = NotReturned
  /\ net' = <<>>
  /\ attempts' = Append(attempts, new_urls[fi])
  /\ pc_b' = "fetching"
  /\ UNCHANGED <<api, bstore, binput, bmain, fi, successes, failures, bsave, bruns>>
  /\ UNCHANGED notbulk

\* line 155: fetch_thread runs
FP_Fetching ==
  /\ pc_b = "fetching"
  /\ FetchStep

\* lines 156-161 and 166-168: fetch_thread returned
FP_Return ==
  /\ pc_b = "fetching"
  /\ pc_f = "done"
  /\ IF result.kind = "Thread"
     THEN /\ successes' = Append(successes, [url |-> new_urls[fi], thread |-> result])
          /\ UNCHANGED failures
     ELSE /\ failures' = Append(failures, [url |-> new_urls[fi], error |-> "not found"])
          /\ UNCHANGED successes
  /\ fi' = fi + 1
  /\ pc_b' = "fetch"
  /\ UNCHANGED <<fvars, bstore, binput, bmain, attempts, bsave, bruns>>
  /\ UNCHANGED notbulk

\* lines 162-168: fetch_thread raised, which it can do once a mirror has
\* answered and the answer is read
FP_Except ==
  /\ pc_b = "fetching"
  /\ pc_f \in {"forward", "parent_check", "walk", "sleep"}
  /\ pc_f' = "raised"
  /\ failures' = Append(failures, [url |-> new_urls[fi], error |-> "exception"])
  /\ fi' = fi + 1
  /\ pc_b' = "fetch"
  /\ UNCHANGED <<api, tweet_url, max_depth, tweet_id, source, data, tweets,
                 author_handle, depth, current_data, result, net,
                 bstore, binput, bmain, successes, attempts, bsave, bruns>>
  /\ UNCHANGED notbulk

\* lines 170 and 463-469
FP_Done ==
  /\ pc_b = "fetch"
  /\ fi > Len(new_urls)
  /\ pc_b' = IF successes = <<>> THEN "exit" ELSE "save"
  /\ UNCHANGED <<fvars, bstore, binput, bmain, bfetch, bsave, bruns>>
  /\ UNCHANGED notbulk

\* lines 186-192
SP_Load ==
  /\ pc_b = "save"
  /\ mem_index' = index_posts
  /\ si' = 1
  /\ saved_ids' = <<>>
  /\ pc_b' = "saving"
  /\ UNCHANGED <<fvars, bstore, binput, bmain, bfetch, bruns>>
  /\ UNCHANGED notbulk

\* line 196
SavedUnder(thread) == thread.tweets[1].id

\* build_content (lines 172-181): the texts of the tweets of the thread, in
\* order; the text of a tweet is told by its id
build_content(thread) == [j \in 1..Len(thread.tweets) |-> thread.tweets[j].id]

\* lines 195-274: one post is written and entered in the index in memory
SP_Post ==
  /\ pc_b = "saving"
  /\ si <= Len(successes)
  /\ LET url == successes[si].url
         thread == successes[si].thread
         post_id == SavedUnder(thread)
     IN /\ post_files' = Put(post_files, post_id,
                              [id |-> post_id, url |-> url,
                               tweet_ids |-> [j \in 1..Len(thread.tweets) |-> thread.tweets[j].id],
                               author |-> thread.author_handle,
                               content |-> build_content(thread)])
        /\ mem_index' = mem_index \cup {post_id}
        /\ saved_ids' = Append(saved_ids, post_id)
  /\ si' = si + 1
  /\ UNCHANGED <<fvars, index_posts, vector_ids, vector_docs, binput, pc_b, bmain,
                 bfetch, bruns>>
  /\ UNCHANGED notbulk

\* lines 195-260: get_post_path, yaml.dump or the file write raises for the
\* post at si; the loop of save_posts has no try, and neither has main
\* (line 472), so the exception ends the process before save_index (line 277)
SP_Raises ==
  /\ pc_b = "saving"
  /\ si <= Len(successes)
  /\ pc_b' = "crashed"
  /\ UNCHANGED <<fvars, bstore, binput, bmain, bfetch, bsave, bruns>>
  /\ UNCHANGED notbulk

\* lines 276-280: the index is written once, after the loop
SP_SaveIndex ==
  /\ pc_b = "saving"
  /\ si > Len(successes)
  /\ index_posts' = mem_index
  /\ pc_b' = "embed"
  /\ UNCHANGED <<fvars, post_files, vector_ids, vector_docs, binput, bmain, bfetch,
                 bsave, bruns>>
  /\ UNCHANGED notbulk

\* dict.get(key, default)
Get(dict, key, default) == IF key \in DOMAIN dict THEN dict[key] ELSE default

\* tools.utils.parse_post_file (utils.py lines 87-101) on a file that
\* save_posts wrote: the front matter under "metadata", the text under "body"
parse_post_file(file) ==
  [metadata |-> [id |-> file.id, url |-> file.url,
                 author |-> [handle |-> file.author],
                 content |-> file.content,
                 archived_via |-> "bulk_import",
                 tags |-> <<>>, topics |-> <<>>],
   body |-> file.content]

\* the text "{content}\n\nAuthor: @{author_handle}" of line 327 with the
\* lines of tags and topics of lines 330-335, by its parts; the lists are
\* left out when empty
EmbedText(content, handle, tags, topics) ==
  [content |-> content, author_handle |-> handle, tags |-> tags, topics |-> topics]

\* lines 322-351: the text that is embedded and the content that is handed
\* to add_post, from what parse_post_file returned; "" is the empty sequence
\* for a content and the empty string for a handle, {} the empty function
EmbeddedEntry(post_data) ==
  LET content == Get(post_data, "content", <<>>)
      author == Get(post_data, "author", <<>>)
      handle == Get(author, "handle", "")
      tags == Get(post_data, "tags", <<>>)
      topics == Get(post_data, "topics", <<>>)
  IN [embed_text |-> EmbedText(content, handle, tags, topics),
      content |-> content]

\* generate_embeddings (lines 283-360): every saved post whose embedding
\* succeeds is added to the vector store, which keeps one entry per id
main_generate_embeddings ==
  /\ pc_b = "embed"
  /\ \E ok \in SUBSET Range(saved_ids) :
       /\ vector_ids' = vector_ids \cup ok
       /\ vector_docs' = [i \in DOMAIN vector_docs \cup ok |->
                            IF i \in ok THEN EmbeddedEntry(parse_post_file(post_files[i]))
                            ELSE vector_docs[i]]
  /\ pc_b' = "finalize"
  /\ UNCHANGED <<fvars, index_posts, post_files, binput, bmain, bfetch, bsave, bruns>>
  /\ UNCHANGED notbulk

\* finalize (lines 363-390)
main_finalize ==
  /\ pc_b = "finalize"
  /\ pc_b' = "exit"
  /\ UNCHANGED <<fvars, bstore, binput, bmain, bfetch, bsave, bruns>>
  /\ UNCHANGED notbulk

\* what a finished run did
RunSummary ==
  [new_urls |-> new_urls, duplicate_urls |-> duplicate_urls,
   attempts |-> attempts, failures |-> failures, saved_ids |-> saved_ids]

\* main is started again on the same export
main_again ==
  /\ pc_b \in {"exit", "crashed"}
  /\ run < MaxRuns
  /\ run' = run + 1
  /\ runlog' = Append(runlog, RunSummary)
  /\ pc_b' = "start"
  /\ new_urls' = <<>>
  /\ duplicate_urls' = <<>>
  /\ fi' = 0
  /\ successes' = <<>>
  /\ failures' = <<>>
  /\ attempts' = <<>>
  /\ mem_index' = {}
  /\ si' = 0
  /\ saved_ids' = <<>>
  /\ UNCHANGED <<fvars, bstore, binput>>
  /\ UNCHANGED notbulk

BulkStep ==
  \/ main_parse
  \/ main_check_duplicates
  \/ main_preflight
  \/ FP_Call
  \/ FP_Fetching
  \/ FP_Return
  \/ FP_Except
  \/ FP_Done
  \/ SP_Load
  \/ SP_Post
  \/ SP_Raises
  \/ SP_SaveIndex
  \/ main_generate_embeddings
  \/ main_finalize
  \/ main_again

\* ------------------------------------------------------------------------
\* src/supabase/client.py
\* ------------------------------------------------------------------------
\* SQL NULL
Null == "NULL"

\* The columns of table posts that tell the writers apart; every other
\* column is written like "content" (by every writer) or like "quoted_text"
\* (by insert_post only).
Columns == {"content", "archived_via", "quoted_post_id", "quoted_text", "embedding"}

\* a row whose columns all hold their default
NullRow == [c \in Columns |-> Null]

\* the row a payload makes of the row old: the columns the payload names
\* are written, the others keep what they hold
WriteRow(payload, old) ==
  [c \in Columns |-> IF c \in DOMAIN payload THEN payload[c] ELSE old[c]]

\* line 157
post_exists(post_id) == post_id \in DOMAIN posts

\* line 115: table("posts").insert(data); id is the key of the table, so
\* this is possible only when no row has the id
insert_post_ok(post_id) == post_id \notin DOMAIN posts

insert_post(post_id, payload) == Put(posts, post_id, WriteRow(payload, NullRow))

\* lines 119-129: table("posts").upsert(post_data)
upsert_post(post_id, payload) ==
  Put(posts, post_id,
      WriteRow(payload, IF post_id \in DOMAIN posts THEN posts[post_id] ELSE NullRow))

\* lines 178-200
insert_media(tbl, post_id, url, description) ==
  Append(tbl, [post_id |-> post_id, url |-> url, description |-> description])

\* lines 212-243
update_media(media_id, description) ==
  [media EXCEPT ![media_id].description = description]

RECURSIVE TakeWhileCount(_, _)
\* the first n elements of s
TakeWhileCount(s, n) ==
  IF n = 0 \/ s = <<>> THEN <<>> ELSE <<Head(s)>> \o TakeWhileCount(Tail(s), n - 1)

\* a selection that does not look at the description
NullDescriptions_All(k) == [j \in 1..(Len(media) - k + 1) |-> k + j - 1]

RECURSIVE NullDescriptions(_)
\* the ids from k on of the rows of post_media whose description is NULL
NullDescriptions(k) ==
  IF k > Len(media) THEN <<>>
  ELSE IF media[k].description = Null THEN <<k>> \o NullDescriptions(k + 1)
  ELSE NullDescriptions(k + 1)

\* lines 245-262
get_media_without_descriptions(limit) == TakeWhileCount(NullDescriptions(1), limit)

\* the row the bot writes for a post that quotes another one
BotRow ==
  [c \in Columns |->
     CASE c = "content" -> "thread text"
       [] c = "archived_via" -> "telegram"
       [] c = "quoted_post_id" -> "55"
       [] c = "quoted_text" -> "quoted text"
       [] c = "embedding" -> "vec bot"]

\* ------------------------------------------------------------------------
\* scripts/migrate_to_supabase.py
\* ------------------------------------------------------------------------
\* the post files are named <id>.md
FileIds == 100..(99 + MaxFiles)

\* A post file: its id, whether its metadata has "quotes", how many media
\* items it lists
PostFile(i, q, n) == [id |-> i, quotes |-> q, media |-> n]

RECURSIVE SortedFiles(_)
\* the sorted lists of post files with ids from i on
SortedFiles(i) ==
  IF i \notin FileIds THEN {<<>>}
  ELSE SortedFiles(i + 1)
       \cup {<<PostFile(i, q, n)>> \o r : q \in BOOLEAN, n \in {0, 1}, r \in SortedFiles(i + 1)}

\* lines 161-196: the record built from file f with embedding emb (or NULL)
post_record(f, emb) ==
  [c \in {"content", "archived_via"}
         \cup (IF f.quotes THEN {"quoted_post_id"} ELSE {})
         \cup (IF emb # Null THEN {"embedding"} ELSE {}) |->
     CASE c = "content" -> "file text"
       [] c = "archived_via" -> "bulk_import"
       [] c = "quoted_post_id" -> "77"
       [] c = "embedding" -> emb]

\* lines 162-168: the embedding generated, NULL when there is no service or
\* it raises
Embeddings == IF m_embedder THEN {"vec file", Null} ELSE {Null}

StatsInit == [total |-> 0, migrated |-> 0, skipped |-> 0, errors |-> 0, with_embeddings |-> 0]

Done(f, kind) == [id |-> f.id, kind |-> kind]

\* lines 95-128
MP_Start ==
  /\ pc_m = "start"
  /\ IF m_files = <<>>
     THEN /\ pc_m' = "done"
          /\ UNCHANGED <<mi, stats>>
     ELSE /\ pc_m' = "loop"
          /\ mi' = 1
          /\ stats' = [StatsInit EXCEPT !.total = Len(m_files)]
  /\ UNCHANGED <<dvars, margs, m_log, notmigrate>>

\* mutant of ItemFailed: the error ends the loop
ItemFailed_Abort(f, kind, st) ==
  /\ stats' = [st EXCEPT !.errors = @ + 1]
  /\ m_log' = Append(m_log, Done(f, kind))
  /\ mi' = mi
  /\ pc_m' = "done"

\* lines 224-226: the exception is caught and counted, the loop goes on
ItemFailed(f, kind, st) ==
  /\ stats' = [st EXCEPT !.errors = @ + 1]
  /\ m_log' = Append(m_log, Done(f, kind))
  /\ mi' = mi + 1
  /\ pc_m' = pc_m

\* lines 136, 224-226: parse_post_file raises
MP_ParseRaises ==
  /\ pc_m = "loop"
  /\ mi <= Len(m_files)
  /\ ItemFailed(m_files[mi], "parse raised", stats)
  /\ UNCHANGED <<dvars, margs, notmigrate>>

\* line 141
SkipExisting(dry, force) == ~dry /\ ~force

\* lines 141-145
MP_Skip ==
  /\ pc_m = "loop"
  /\ mi <= Len(m_files)
  /\ SkipExisting(m_dry_run, m_force)
  /\ post_exists(m_files[mi].id)
  /\ stats' = [stats EXCEPT !.skipped = @ + 1]
  /\ m_log' = Append(m_log, Done(m_files[mi], "skipped"))
  /\ mi' = mi + 1
  /\ UNCHANGED <<dvars, margs, pc_m, notmigrate>>

\* lines 142, 224-226: post_exists raises
MP_ExistsRaises ==
  /\ pc_m = "loop"
  /\ mi <= Len(m_files)
  /\ SkipExisting(m_dry_run, m_force)
  /\ ItemFailed(m_files[mi], "post_exists raised", stats)
  /\ UNCHANGED <<dvars, margs, notmigrate>>

\* the file is to be written: lines 141-142 did not skip it
Proceeds(f) == ~(SkipExisting(m_dry_run, m_force) /\ post_exists(f.id))

\* lines 147-222 in a dry run
MP_DryRun ==
  /\ pc_m = "loop"
  /\ mi <= Len(m_files)
  /\ m_dry_run
  /\ \E emb \in Embeddings :
       stats' = [stats EXCEPT !.migrated = @ + 1,
                              !.with_embeddings = @ + (IF emb # Null THEN 1 ELSE 0)]
  /\ m_log' = Append(m_log, Done(m_files[mi], "previewed"))
  /\ mi' = mi + 1
  /\ UNCHANGED <<dvars, margs, pc_m, notmigrate>>

RECURSIVE InsertMediaItems(_, _, _)
\* lines 213-222: n media items of post post_id are inserted
InsertMediaItems(tbl, post_id, n) ==
  IF n = 0 THEN tbl
  ELSE InsertMediaItems(insert_media(tbl, post_id, "image url", Null), post_id, n - 1)

\* lines 147-222: the record is upserted and its media inserted
MP_Upsert ==
  /\ pc_m = "loop"
  /\ mi <= Len(m_files)
  /\ ~m_dry_run
  /\ Proceeds(m_files[mi])
  /\ LET f == m_files[mi] IN
     \E emb \in Embeddings :
       /\ posts' = upsert_post(f.id, post_record(f, emb))
       /\ media' = InsertMediaItems(media, f.id, f.media)
       /\ stats' = [stats EXCEPT !.migrated = @ + 1,
                                 !.with_embeddings = @ + (IF emb # Null THEN 1 ELSE 0)]
       /\ m_log' = Append(m_log,
                          [id |-> f.id, kind |-> "migrated", existed |-> post_exists(f.id),
                           record |-> WriteRow(post_record(f, emb), NullRow)])
  /\ mi' = mi + 1
  /\ UNCHANGED <<margs, pc_m, notmigrate>>

\* lines 206, 224-226: upsert_post raises, nothing is written
MP_UpsertRaises ==
  /\ pc_m = "loop"
  /\ mi <= Len(m_files)
  /\ ~m_dry_run
  /\ Proceeds(m_files[mi])
  /\ \E emb \in Embeddings :
       ItemFailed(m_files[mi], "upsert raised",
                  [stats EXCEPT !.with_embeddings = @ + (IF emb # Null THEN 1 ELSE 0)])
  /\ UNCHANGED <<dvars, margs, notmigrate>>

\* lines 206-226: the record is upserted and counted, then insert_media
\* raises on the j-th media item
MP_MediaRaises ==
  /\ pc_m = "loop"
  /\ mi <= Len(m_files)
  /\ ~m_dry_run
  /\ Proceeds(m_files[mi])
  /\ LET f == m_files[mi] IN
     \E emb \in Embeddings, j \in 1..f.media :
       /\ posts' = upsert_post(f.id, post_record(f, emb))
       /\ media' = InsertMediaItems(media, f.id, j - 1)
       /\ ItemFailed(f, "insert_media raised",
                     [stats EXCEPT !.migrated = @ + 1,
                                   !.with_embeddings = @ + (IF emb # Null THEN 1 ELSE 0)])
  /\ UNCHANGED <<margs, notmigrate>>

\* lines 228-242: the loop is over
MP_Finish ==
  /\ pc_m = "loop"
  /\ mi > Len(m_files)
  /\ pc_m' = "done"
  /\ UNCHANGED <<dvars, margs, mi, stats, m_log, notmigrate>>

MigrateStep ==
  \/ MP_Start
  \/ MP_ParseRaises
  \/ MP_Skip
  \/ MP_ExistsRaises
  \/ MP_DryRun
  \/ MP_Upsert
  \/ MP_UpsertRaises
  \/ MP_MediaRaises
  \/ MP_Finish

\* ------------------------------------------------------------------------
\* scripts/backfill_image_descriptions.py
\* ------------------------------------------------------------------------
\* line 88: media_limit = limit if limit else 500
DefaultMediaLimit == 500

\* lines 73-108
BF_Start ==
  /\ pc_k = "start"
  /\ LET items == get_media_without_descriptions(IF k_limit # 0 THEN k_limit
                                                   ELSE DefaultMediaLimit) IN
     /\ media_items' = items
     /\ pc_k' = IF items = <<>> \/ k_dry_run THEN "done" ELSE "loop"
  /\ ki' = 1
  /\ UNCHANGED <<dvars, kargs, success_count, error_count, affected_post_ids,
                 k_log, notbackfill>>

\* the loop has an item to process (lines 110-112)
HasItem ==
  /\ pc_k = "loop"
  /\ ki <= Len(media_items)
  /\ ~(k_limit # 0 /\ ki - 1 >= k_limit)

\* lines 143-155: the item is counted as an error, the loop goes on
Failed(kind) ==
  /\ error_count' = error_count + 1
  /\ k_log' = Append(k_log, [id |-> media_items[ki], kind |-> kind])
  /\ ki' = ki + 1

\* lines 117-128, 150-152: get_post, describe_image or update_media raises
BF_Raises ==
  /\ HasItem
  /\ Failed("raised")
  /\ UNCHANGED <<dvars, kargs, pc_k, media_items, success_count,
                 affected_post_ids, notbackfill>>

\* lines 130, 146-148: describe_image gives no description
BF_NoDescription ==
  /\ HasItem
  /\ Failed("no description")
  /\ UNCHANGED <<dvars, kargs, pc_k, media_items, success_count,
                 affected_post_ids, notbackfill>>

\* lines 130-142: the description is written
BF_Update ==
  /\ HasItem
  /\ media' = update_media(media_items[ki], "description")
  /\ success_count' = success_count + 1
  /\ affected_post_ids' = affected_post_ids \cup {media[media_items[ki]].post_id}
  /\ k_log' = Append(k_log, [id |-> media_items[ki], kind |-> "updated"])
  /\ ki' = ki + 1
  /\ UNCHANGED <<posts, kargs, pc_k, media_items, error_count, notbackfill>>

\* lines 157-160: the loop is over
BF_Finish ==
  /\ pc_k = "loop"
  /\ ~HasItem
  /\ pc_k' = IF k_regen /\ affected_post_ids # {} THEN "regenerate" ELSE "done"
  /\ UNCHANGED <<dvars, kargs, media_items, ki, success_count, error_count,
                 affected_post_ids, k_log, notbackfill>>

\* lines 160-197: the embeddings of the affected posts that exist are
\* regenerated, each unless it raises
BF_Regenerate ==
  /\ pc_k = "regenerate"
  /\ \E ok \in SUBSET (affected_post_ids \cap DOMAIN posts) :
       posts' = [i \in DOMAIN posts |->
                   IF i \in ok THEN [posts[i] EXCEPT !["embedding"] = "vec regenerated"]
                   ELSE posts[i]]
  /\ pc_k' = "done"
  /\ UNCHANGED <<media, kargs, media_items, ki, success_count, error_count,
                 affected_post_ids, k_log, notbackfill>>

\* the media ids the log of a run shows as updated
UpdatedIn(log) == {log[j].id : j \in {i \in DOMAIN log : log[i].kind = "updated"}}

\* backfill_descriptions is run again, with the same arguments
BF_Again ==
  /\ pc_k = "done"
  /\ k_run < MaxRuns
  /\ k_run' = k_run + 1
  /\ k_before' = k_before \cup UpdatedIn(k_log)
  /\ UNCHANGED <<k_dry_run, k_limit, k_regen>>
  /\ pc_k' = "start"
  /\ media_items' = <<>>
  /\ ki' = 0
  /\ success_count' = 0
  /\ error_count' = 0
  /\ affected_post_ids' = {}
  /\ k_log' = <<>>
  /\ UNCHANGED <<dvars, notbackfill>>

BackfillStep ==
  \/ BF_Start
  \/ BF_Raises
  \/ BF_NoDescription
  \/ BF_Update
  \/ BF_Finish
  \/ BF_Regenerate
  \/ BF_Again

\* ------------------------------------------------------------------------
\* tools/telegram_bot.py
\* ------------------------------------------------------------------------
\* the Telegram users that write to the bot, and ALLOWED_USERS
Users == {1, 2, 3}
ALLOWED_USERS == {1, 2}

\* lines 132-136
is_allowed(user_id) == ALLOWED_USERS = {} \/ user_id \in ALLOWED_USERS

\* context.user_data: each key holds Nothing when it is absent
NoUserData ==
  [thread |-> Nothing, url |-> Nothing, tags |-> Nothing, topics |-> Nothing,
   notes |-> Nothing]

\* The text messages sent to the bot: the URL in them after lines 310-322,
\* Nothing when the text holds no URL
BotMessages ==
  {Nothing, Some(Url("x.com", "alice", "status", 100)),
   Some(Url("x.com", "alice", "status", 101))}

\* a Thread and the number of media items of its tweets
ThreadWithMedia(tw, n) ==
  [kind |-> "Thread", tweets |-> tw, author_handle |-> Last(tw).author_handle,
   total_count |-> Len(tw), media |-> n]

\* line 336: what fetch_thread(url) may return to the bot
BotThreads(url) ==
  LET i == extract_tweet_id(url) IN
  {ReturnedNone, ThreadWithMedia(<<Tweet(i, AuthorOf(i))>>, 1)}
  \cup (IF i = 100
        THEN {ThreadWithMedia(<<Tweet(99, AuthorOf(99)), Tweet(100, AuthorOf(100))>>, 0)}
        ELSE {})

\* lines 112-118: the lookup, False when it raises
check_duplicate_supabase(post_id, raises) ==
  IF raises THEN FALSE ELSE post_exists(post_id)

\* lines 303-318: the user is not allowed, or the text holds no URL
HU_Rejected(u) ==
  /\ conv[u] = "END"
  /\ \E msg \in BotMessages : ~is_allowed(u) \/ msg = Nothing
  /\ UNCHANGED <<dvars, tvars, notbot>>

\* lines 324-331: the post is already archived
HU_Duplicate(u) ==
  /\ conv[u] = "END"
  /\ is_allowed(u)
  /\ \E msg \in BotMessages \ {Nothing}, raises \in BOOLEAN :
       LET post_id == extract_tweet_id(msg[1]) IN
       post_id # NoId /\ check_duplicate_supabase(post_id, raises)
  /\ UNCHANGED <<dvars, tvars, notbot>>

\* lines 324-346: not a duplicate, but fetch_thread returned None
HU_NotFetched(u) ==
  /\ conv[u] = "END"
  /\ is_allowed(u)
  /\ \E msg \in BotMessages \ {Nothing}, raises \in BOOLEAN :
       LET post_id == extract_tweet_id(msg[1]) IN
       /\ ~(post_id # NoId /\ check_duplicate_supabase(post_id, raises))
       /\ ReturnedNone \in BotThreads(msg[1])
  /\ UNCHANGED <<dvars, tvars, notbot>>

\* the conversations that are under way
Active == {u \in Users : conv[u] # "END"}

\* lines 324-380: not a duplicate, the thread is kept for the conversation
\* (a conversation is begun only while one of the MaxSaves saves is left for it)
HU_Preview(u) ==
  /\ conv[u] = "END"
  /\ is_allowed(u)
  /\ Cardinality(Active) + Len(bot_log) < MaxSaves
  /\ \E msg \in BotMessages \ {Nothing}, raises \in BOOLEAN :
       LET post_id == extract_tweet_id(msg[1]) IN
       /\ ~(post_id # NoId /\ check_duplicate_supabase(post_id, raises))
       /\ \E thread \in BotThreads(msg[1]) \ {ReturnedNone} :
            user_data' = [user_data EXCEPT ![u].thread = Some(thread),
                                           ![u].url = Some(msg[1])]
  /\ conv' = [conv EXCEPT ![u] = "CONFIRM_CONTENT"]
  /\ UNCHANGED <<dvars, bot_log, t_last, notbot>>

\* lines 80-113: the data insert_post sends
insert_post_data(emb) ==
  [c \in Columns \ (IF emb = Null THEN {"embedding"} ELSE {}) |->
     IF c = "embedding" THEN emb ELSE BotRow[c]]

\* what a save did
Save(u, post_id, kind) ==
  [user |-> u, id |-> post_id, kind |-> kind, existed |-> post_exists(post_id)]

\* how a conversation ended: in which state, by what, and the tags, topics
\* and notes its handler held
Ended(u, by, ud) ==
  Some([at |-> conv[u], by |-> by,
        tags |-> ud.tags, topics |-> ud.topics, notes |-> ud.notes])

\* lines 596-617: db.insert_post, which raises when the id is in the table
StorePost(post_id, emb) ==
  /\ insert_post_ok(post_id)
  /\ posts' = insert_post(post_id, insert_post_data(emb))

\* save_archived_post (lines 505-636) as its callers run it (lines 401-415,
\* 483-499): an exception of it is caught and reported
save_archived_post(u, ud) ==
  LET thread == ud.thread[1]
      post_id == extract_tweet_id(ud.url[1])
  IN \E emb \in {"vec bot", Null} :
       \/ /\ StorePost(post_id, emb)
          /\ \E inserted \in 0..thread.media :
               media' = InsertMediaItems(media, post_id, inserted)
          /\ bot_log' = Append(bot_log, Save(u, post_id, "saved"))
       \/ /\ ~insert_post_ok(post_id)
          /\ bot_log' = Append(bot_log, Save(u, post_id, "conflict"))
          /\ UNCHANGED dvars
       \/ /\ bot_log' = Append(bot_log, Save(u, post_id, "raised"))
          /\ UNCHANGED dvars

\* lines 388-391
CC_Cancel(u) ==
  /\ conv[u] = "CONFIRM_CONTENT"
  /\ user_data' = [user_data EXCEPT ![u] = NoUserData]
  /\ conv' = [conv EXCEPT ![u] = "END"]
  /\ t_last' = Ended(u, "button", NoUserData)
  /\ UNCHANGED <<dvars, bot_log, notbot>>

\* a quick save without line 417
CC_Quick_KeepsData(u) ==
  /\ conv[u] = "CONFIRM_CONTENT"
  /\ Len(bot_log) < MaxSaves
  /\ LET ud == [user_data[u] EXCEPT !.tags = Some(<<>>),
                                     !.topics = Some(<<>>),
                                     !.notes = Some(None)]
     IN /\ save_archived_post(u, ud)
        /\ t_last' = Ended(u, "quick", ud)
        /\ user_data' = [user_data EXCEPT ![u] = ud]
  /\ conv' = [conv EXCEPT ![u] = "END"]
  /\ UNCHANGED notbot

\* lines 394-418
CC_Quick(u) ==
  /\ conv[u] = "CONFIRM_CONTENT"
  /\ Len(bot_log) < MaxSaves
  /\ LET ud == [user_data[u] EXCEPT !.tags = Some(<<>>),
                                     !.topics = Some(<<>>),
                                     !.notes = Some(None)]
     IN save_archived_post(u, ud) /\ t_last' = Ended(u, "quick", ud)
  /\ user_data' = [user_data EXCEPT ![u] = NoUserData]
  /\ conv' = [conv EXCEPT ![u] = "END"]
  /\ UNCHANGED notbot

\* the button "full" leading past the tags
CC_Full_SkipsTags(u) ==
  /\ conv[u] = "CONFIRM_CONTENT"
  /\ conv' = [conv EXCEPT ![u] = "ADD_TOPICS"]
  /\ UNCHANGED <<dvars, user_data, bot_log, t_last, notbot>>

\* lines 420-428
CC_Full(u) ==
  /\ conv[u] = "CONFIRM_CONTENT"
  /\ conv' = [conv EXCEPT ![u] = "ADD_TAGS"]
  /\ UNCHANGED <<dvars, user_data, bot_log, t_last, notbot>>

\* the lists a user sends as tags or topics; <<>> for "skip"
TagLists == {<<>>, <<"ai">>}

\* lines 431-448
add_tags(u) ==
  /\ conv[u] = "ADD_TAGS"
  /\ \E tags \in TagLists : user_data' = [user_data EXCEPT ![u].tags = Some(tags)]
  /\ conv' = [conv EXCEPT ![u] = "ADD_TOPICS"]
  /\ UNCHANGED <<dvars, bot_log, t_last, notbot>>

\* lines 451-468
add_topics(u) ==
  /\ conv[u] = "ADD_TOPICS"
  /\ \E topics \in TagLists : user_data' = [user_data EXCEPT ![u].topics = Some(topics)]
  /\ conv' = [conv EXCEPT ![u] = "ADD_NOTES"]
  /\ UNCHANGED <<dvars, bot_log, t_last, notbot>>

\* lines 471-502
add_notes(u) ==
  /\ conv[u] = "ADD_NOTES"
  /\ Len(bot_log) < MaxSaves
  /\ \E notes \in {None, "a note"} :
       LET ud == [user_data[u] EXCEPT !.notes = Some(notes)]
       IN save_archived_post(u, ud) /\ t_last' = Ended(u, "notes", ud)
  /\ user_data' = [user_data EXCEPT ![u] = NoUserData]
  /\ conv' = [conv EXCEPT ![u] = "END"]
  /\ UNCHANGED notbot

\* /cancel without line 296
cancel_KeepsData(u) ==
  /\ conv[u] \in {"CONFIRM_CONTENT", "ADD_TAGS", "ADD_TOPICS", "ADD_NOTES"}
  /\ conv' = [conv EXCEPT ![u] = "END"]
  /\ t_last' = Ended(u, "/cancel", NoUserData)
  /\ UNCHANGED <<dvars, user_data, bot_log, notbot>>

\* lines 294-298: the fallback /cancel of the conversation
cancel(u) ==
  /\ conv[u] \in {"CONFIRM_CONTENT", "ADD_TAGS", "ADD_TOPICS", "ADD_NOTES"}
  /\ user_data' = [user_data EXCEPT ![u] = NoUserData]
  /\ conv' = [conv EXCEPT ![u] = "END"]
  /\ t_last' = Ended(u, "/cancel", NoUserData)
  /\ UNCHANGED <<dvars, bot_log, notbot>>

BotStep ==
  \/ \E u \in Users : HU_Rejected(u)
  \/ \E u \in Users : HU_Duplicate(u)
  \/ \E u \in Users : HU_NotFetched(u)
  \/ \E u \in Users : HU_Preview(u)
  \/ \E u \in Users : CC_Cancel(u)
  \/ \E u \in Users : CC_Quick(u)
  \/ \E u \in Users : CC_Full(u)
  \/ \E u \in Users : add_tags(u)
  \/ \E u \in Users : add_topics(u)
  \/ \E u \in Users : add_notes(u)
  \/ \E u \in Users : cancel(u)

\* ------------------------------------------------------------------------
\* src/embeddings/vector_store.py
\* ------------------------------------------------------------------------
VectorIds == 100..(99 + MaxVectors)
Documents == {"doc a", "doc b"}

IdsOf(coll) == {coll[j].id : j \in DOMAIN coll}
Take(s, n) == SubSeq(s, 1, Min(n, Len(s)))

\* Collection.add would append whatever the id
collection_upsert_Add(coll, e) == Append(coll, e)

\* Collection.upsert (lines 79-84): the entry of the id is replaced, an entry
\* with a new id is appended
collection_upsert(coll, e) ==
  IF e.id \in IdsOf(coll)
  THEN [j \in DOMAIN coll |-> IF coll[j].id = e.id THEN e ELSE coll[j]]
  ELSE Append(coll, e)

\* the entries of coll at the places S, in order
Pick(coll, S) ==
  LET F[j \in 0..Len(coll)] ==
        IF j = 0 THEN <<>>
        ELSE IF j \in S THEN Append(F[j - 1], coll[j]) ELSE F[j - 1]
  IN F[Len(coll)]

\* Collection.query (lines 158-162): n entries, or all when there are fewer;
\* which ones are nearest depends on the embeddings, so any choice of them
collection_query(coll, n) ==
  {Pick(coll, S) : S \in {T \in SUBSET DOMAIN coll : Cardinality(T) = Min(n, Len(coll))}}

\* Collection.delete (line 193): the entry of the id is removed; an id that
\* is absent is ignored
collection_delete(coll, post_id) ==
  LET Other(e) == e.id # post_id IN SelectSeq(coll, Other)

\* VectorStore.count (lines 224-226)
count == Len(collection)

\* a call of the vector store and what it returned
VCall(op, post_id, k, res, failed) ==
  [op |-> op, id |-> post_id, k |-> k, result |-> res, failed |-> failed,
   before |-> collection]

\* add_post (lines 56-86); generating the embedding (line 73) may raise, and
\* add_post has no try
VS_AddPost ==
  /\ \E post_id \in VectorIds, content \in Documents, raises \in BOOLEAN :
       /\ collection' = IF raises THEN collection
                        ELSE collection_upsert(collection, [id |-> post_id, document |-> content])
       /\ v_added' = IF raises THEN v_added ELSE v_added \cup {post_id}
       /\ v_last' = VCall("add_post", post_id, 0, IF raises THEN "raised" ELSE "ok", raises)
  /\ UNCHANGED notvector

\* get_similar without the filter of lines 167-168
get_similar_KeepsSelf(coll, post_id, n_results, results) ==
  IF post_id \notin IdsOf(coll) THEN <<>> ELSE Take(results, n_results)

\* get_similar (lines 146-180), results being what the query for
\* n_results + 1 entries returned
get_similar(coll, post_id, n_results, results) ==
  IF post_id \notin IdsOf(coll) THEN <<>>
  ELSE LET Other(e) == e.id # post_id
       IN Take(SelectSeq(results, Other), n_results)

VS_GetSimilar ==
  /\ \E post_id \in VectorIds, n_results \in 0..MaxResults :
       \E results \in collection_query(collection, n_results + 1) :
         v_last' = VCall("get_similar", post_id, n_results,
                         get_similar(collection, post_id, n_results, results), FALSE)
  /\ UNCHANGED <<collection, v_added>>
  /\ UNCHANGED notvector

\* delete_post (lines 182-198): True unless Collection.delete raised
VS_DeletePost ==
  /\ \E post_id \in VectorIds, raises \in BOOLEAN :
       /\ collection' = IF raises THEN collection ELSE collection_delete(collection, post_id)
       /\ v_added' = IF raises THEN v_added ELSE v_added \ {post_id}
       /\ v_last' = VCall("delete_post", post_id, 0, ~raises, raises)
  /\ UNCHANGED notvector

VectorStep ==
  \/ VS_AddPost
  \/ VS_GetSimilar
  \/ VS_DeletePost

\* ------------------------------------------------------------------------
\* src/vision/extractor.py
\* ------------------------------------------------------------------------
\* Strings that are searched are sequences of characters.
UpperCase == <<"A", "B", "C", "D", "E", "F", "G", "H", "I", "J", "K", "L", "M",
               "N", "O", "P", "Q", "R", "S", "T", "U", "V", "W", "X", "Y", "Z">>
LowerCase == <<"a", "b", "c", "d", "e", "f", "g", "h", "i", "j", "k", "l", "m",
               "n", "o", "p", "q", "r", "s", "t", "u", "v", "w", "x", "y", "z">>

\* str.lower
str_lower(s) ==
  [j \in DOMAIN s |->
     IF \E c \in DOMAIN UpperCase : UpperCase[c] = s[j]
     THEN LowerCase[CHOOSE c \in DOMAIN UpperCase : UpperCase[c] = s[j]]
     ELSE s[j]]

\* kw in s
Contains(kw, s) ==
  \E i \in 1..(Len(s) - Len(kw) + 1) : SubSeq(s, i, i + Len(kw) - 1) = kw

MAX_IMAGE_SIZE_MB == 5
MaxImageBytes == MAX_IMAGE_SIZE_MB * 1024 * 1024

\* what the download of the image gives: an HTTP or network error, or a
\* body of some length
ImageSizes == {1024, MaxImageBytes, MaxImageBytes + 1}
Downloads == {[status |-> "error", size |-> 0]} \cup {[status |-> "ok", size |-> n] : n \in ImageSizes}

\* _fetch_image (lines 104-155): None on an error and for a body over the
\* threshold
fetch_image(download) ==
  IF download.status = "error" THEN Nothing
  ELSE IF download.size > MaxImageBytes THEN Nothing
  ELSE Some([type |-> "base64", size |-> download.size])

\* lines 173-183
text_keywords ==
  {<<"s", "c", "r", "e", "e", "n", "s", "h", "o", "t">>,
   <<"c", "o", "d", "e">>,
   <<"t", "e", "r", "m", "i", "n", "a", "l">>,
   <<"s", "n", "i", "p", "p", "e", "t">>,
   <<"d", "o", "c", "u", "m", "e", "n", "t", "a", "t", "i", "o", "n">>,
   <<"a", "r", "t", "i", "c", "l", "e">>,
   <<"t", "w", "e", "e", "t">>,
   <<"p", "o", "s", "t">>,
   <<"m", "e", "s", "s", "a", "g", "e">>}

\* lines 188-202
chart_keywords ==
  {<<"c", "h", "a", "r", "t">>,
   <<"g", "r", "a", "p", "h">>,
   <<"d", "a", "t", "a">>,
   <<"v", "i", "s", "u", "a", "l", "i", "z", "a", "t", "i", "o", "n">>,
   <<"m", "e", "t", "r", "i", "c", "s">>,
   <<"s", "t", "a", "t", "s">>,
   <<"s", "t", "a", "t", "i", "s", "t", "i", "c", "s">>,
   <<"t", "r", "e", "n", "d">>,
   <<"g", "r", "o", "w", "t", "h">>,
   <<"d", "e", "c", "l", "i", "n", "e">>,
   <<"p", "e", "r", "c", "e", "n", "t", "a", "g", "e">>,
   <<"d", "i", "a", "g", "r", "a", "m">>,
   <<"f", "l", "o", "w", "c", "h", "a", "r", "t">>}

\* post_context: None (Nothing), the empty string, or a text
Contexts ==
  {Nothing, Some(<<>>),
   Some(<<"n", "i", "c", "e", " ", "v", "i", "e", "w">>),
   Some(<<"S", "c", "r", "e", "e", "n", "s", "h", "o", "t", " ", "o", "f", " ", "a", " ", "c", "h", "a", "r", "t">>),
   Some(<<"G", "r", "o", "w", "t", "h">>),
   Some(<<"m", "e", "t", "a", "d", "a", "t", "a">>),
   Some(<<"a", " ", "r", "e", "p", "o", "s", "t">>)}

\* _infer_category_from_context with the chart keywords tested first
infer_category_ChartFirst(context) ==
  IF context = Nothing \/ context = Some(<<>>) THEN None
  ELSE LET context_lower == str_lower(context[1])
       IN IF \E kw \in chart_keywords : Contains(kw, context_lower) THEN "chart"
          ELSE IF \E kw \in text_keywords : Contains(kw, context_lower) THEN "text_heavy"
          ELSE None

\* _infer_category_from_context (lines 157-206)
infer_category_from_context(context) ==
  IF context = Nothing \/ context = Some(<<>>) THEN None
  ELSE LET context_lower == str_lower(context[1])
       IN IF \E kw \in text_keywords : Contains(kw, context_lower) THEN "text_heavy"
          ELSE IF \E kw \in chart_keywords : Contains(kw, context_lower) THEN "chart"
          ELSE None

\* what the model answers to the classification prompt, or the call raises
Replies ==
  {<<"t", "e", "x", "t", "_", "h", "e", "a", "v", "y">>,
   <<"C", "h", "a", "r", "t">>,
   <<"g", "e", "n", "e", "r", "a", "l">>,
   <<"c", "h", "a", "r", "t", " ", "o", "r", " ", "t", "e", "x", "t", "_", "h", "e", "a", "v", "y">>}
Classifications == {[raises |-> TRUE, text |-> <<>>]} \cup {[raises |-> FALSE, text |-> t] : t \in Replies}

\* _detect_category (lines 208-251)
detect_category(classification) ==
  IF classification.raises THEN "general"
  ELSE LET response_text == str_lower(classification.text)
       IN IF Contains(<<"t", "e", "x", "t", "_", "h", "e", "a", "v", "y">>, response_text) THEN "text_heavy"
          ELSE IF Contains(<<"c", "h", "a", "r", "t">>, response_text) THEN "chart"
          ELSE "general"

\* what the model answers to the extraction prompt, or the call raises
Extractions == {[raises |-> TRUE, text |-> ""], [raises |-> FALSE, text |-> "what the image shows"]}

\* _extract_description (lines 253-297): the model's text, or, when the call
\* raised, the text of line 297
extract_description(extraction, category) ==
  IF extraction.raises THEN <<"[Image extraction failed: ", category, "]">>
  ELSE <<extraction.text>>

\* category_hint: None, the empty string, or a category
Hints == {None, "", "text_heavy", "chart", "general"}

\* describe_image (lines 54-102): what it returns and the model calls it made
describe_image(download, post_context, category_hint, classification, extraction) ==
  LET image_data == fetch_image(download)
      hinted == IF category_hint \in {None, ""}
                THEN infer_category_from_context(post_context)
                ELSE category_hint
      category == IF hinted = None THEN detect_category(classification) ELSE hinted
  IN IF image_data = Nothing THEN [result |-> Nothing, calls |-> <<>>]
     ELSE [result |-> Some([description |-> extract_description(extraction, category),
                            category |-> category]),
           calls |-> (IF hinted = None THEN <<"detect_category">> ELSE <<>>)
                     \o <<"extract_description">>]

\* one call; describe_image keeps no state between calls
XI_DescribeImage ==
  /\ x_last = Nothing
  /\ \E download \in Downloads, post_context \in Contexts, category_hint \in Hints,
        classification \in Classifications, extraction \in Extractions :
       x_last' = [download |-> download, post_context |-> post_context,
                  category_hint |-> category_hint, classification |-> classification,
                  extraction |-> extraction,
                  returned |-> describe_image(download, post_context, category_hint,
                                              classification, extraction)]
  /\ UNCHANGED notvision

\* ------------------------------------------------------------------------
\* The metadata of a vector index entry (src/embeddings/vector_store.py)
\* ------------------------------------------------------------------------
\* A Python value is a record with one field, named after its type; a str
\* is the sequence of its characters, a dict is the function of its keys.
PyNone == [NoneType |-> 0]
PyStr(chars) == [str |-> chars]
PyInt(n) == [int |-> n]
PyFloat(n) == [float |-> n]
PyBool(b) == [bool |-> b]
PyList(items) == [list |-> items]
PyEmptyDict == [dict |-> 0]

\* type(value).__name__ and the value itself
TypeOf(value) == CHOOSE t \in DOMAIN value : TRUE
ValueOf(value) == value[TypeOf(value)]

\* str(value) of lines 249 and 253; the numbers of the model have one digit,
\* and a float of the model is a whole number n, written "n.0"
Digit(n) == <<"0", "1", "2", "3", "4", "5", "6", "7", "8", "9">>[n + 1]

str(value) ==
  CASE TypeOf(value) = "str" -> ValueOf(value)
    [] TypeOf(value) = "int" -> <<Digit(ValueOf(value))>>
    [] TypeOf(value) = "float" -> <<Digit(ValueOf(value)), ".", "0">>
    [] TypeOf(value) = "bool" -> IF ValueOf(value) THEN <<"T", "r", "u", "e">>
                           ELSE <<"F", "a", "l", "s", "e">>
    [] TypeOf(value) = "NoneType" -> <<"N", "o", "n", "e">>
    [] TypeOf(value) = "dict" -> <<"{", "}">>

RECURSIVE join(_, _)
\* sep.join(parts)
join(sep, parts) ==
  IF parts = <<>> THEN <<>>
  ELSE IF Len(parts) = 1 THEN parts[1]
  ELSE parts[1] \o sep \o join(sep, Tail(parts))

\* a flattening that keeps a list as it is
flatten_metadata_KeepsLists(metadata) ==
  [key \in {k \in DOMAIN metadata : TypeOf(metadata[k]) # "NoneType"} |->
     LET value == metadata[key] IN
     IF TypeOf(value) \in {"list", "str", "int", "float", "bool"} THEN value
     ELSE PyStr(str(value))]

\* _flatten_metadata (lines 237-254)
flatten_metadata(metadata) ==
  [key \in {k \in DOMAIN metadata : TypeOf(metadata[k]) # "NoneType"} |->
     LET value == metadata[key] IN
     IF TypeOf(value) = "list"
     THEN PyStr(join(<<",", " ">>, [j \in DOMAIN ValueOf(value) |-> str(ValueOf(value)[j])]))
     ELSE IF TypeOf(value) \in {"str", "int", "float", "bool"} THEN value
     ELSE PyStr(str(value))]

\* line 77: the length of the preview of the content
PreviewLength == 500

\* lines 76-77 of add_post: the metadata stored with the entry; content is
\* Nothing for None
clean_metadata(metadata, content) ==
  LET flat == flatten_metadata(IF metadata = Nothing THEN <<>> ELSE metadata[1])
      preview == IF content = Nothing THEN <<>> ELSE Take(content[1], PreviewLength)
  IN Put(flat, "content_preview", PyStr(preview))

\* the values of a metadata
ListItems == {PyStr(<<"a">>), PyInt(7), PyNone}
MetadataValues ==
  {PyNone, PyStr(<<"a">>), PyStr(<<>>), PyInt(7), PyFloat(2), PyBool(TRUE), PyEmptyDict}
  \cup {PyList(items) : items \in SeqsUpTo(ListItems, 2)}

\* the metadata given to add_post: None, or a dict over some of two keys
MetadataKeys == {"author", "tags"}
Metadatas ==
  {Nothing} \cup
  {Some(m) : m \in UNION {[K -> MetadataValues] : K \in SUBSET MetadataKeys}}

\* the contents given to add_post: None, the empty text, a short text and
\* one that is longer than the preview
PostContents ==
  {Nothing, Some(<<>>), Some(<<"h", "i">>), Some([j \in 1..(PreviewLength + 1) |-> "x"])}

\* one call of add_post, as far as the metadata goes; _flatten_metadata
\* keeps no state
VS_AddPostMetadata ==
  /\ f_last = Nothing
  /\ \E metadata \in Metadatas, content \in PostContents :
       f_last' = Some([metadata |-> metadata, content |-> content,
                       stored |-> clean_metadata(metadata, content)])
  /\ UNCHANGED <<u_last, svars, nothelpers>>

\* ------------------------------------------------------------------------
\* The URL helpers, called on any URL
\* ------------------------------------------------------------------------
\* one call of each of the four extractors on the same URL; they keep no state
UH_Extract ==
  /\ u_last = Nothing
  /\ \E url \in HelperUrls :
       u_last' = Some([url |-> url,
                       tweet_id |-> extract_tweet_id(url),
                       handle |-> extract_handle(url),
                       post_id |-> extract_post_id(url),
                       utils_handle |-> utils_extract_handle(url)])
  /\ UNCHANGED <<f_last, svars, nothelpers>>

\* ------------------------------------------------------------------------
\* The construction of the database client (src/supabase/client.py)
\* ------------------------------------------------------------------------
\* the two environment variables of lines 20-21
EnvNames == {"SUPABASE_URL", "SUPABASE_SERVICE_KEY"}

\* os.environ.get(name) at a time when the names of env are set
environ_get(env, name) == IF name \in env THEN Some(name) ELSE Nothing

\* lines 20-21, run when the module is imported: the module keeps what the
\* environment held then
SC_Import ==
  /\ module_env = Nothing
  /\ module_env' = Some([SUPABASE_URL |-> environ_get(environ, "SUPABASE_URL"),
                         SUPABASE_KEY |-> environ_get(environ, "SUPABASE_SERVICE_KEY")])
  /\ UNCHANGED <<environ, singleton, s_last>>
  /\ UNCHANGED <<u_last, f_last, nothelpers>>

\* the process sets a variable (load_dotenv, or os.environ[name] = value as in
\* tests/test_supabase_integration.py lines 229-232)
SC_SetEnv ==
  /\ \E name \in EnvNames \ environ : environ' = environ \cup {name}
  /\ UNCHANGED <<module_env, singleton, s_last>>
  /\ UNCHANGED <<u_last, f_last, nothelpers>>

\* the process removes a variable (os.environ.pop as in
\* tests/test_supabase_integration.py lines 218-219)
SC_PopEnv ==
  /\ \E name \in environ : environ' = environ \ {name}
  /\ UNCHANGED <<module_env, singleton, s_last>>
  /\ UNCHANGED <<u_last, f_last, nothelpers>>

\* SupabaseClient.__init__ (lines 30-47); url and key are Nothing for None,
\* connects tells whether create_client (line 46) returns or raises
SupabaseClient(url, key, connects) ==
  LET self_url == IF url # Nothing THEN url ELSE module_env[1].SUPABASE_URL
      self_key == IF key # Nothing THEN key ELSE module_env[1].SUPABASE_KEY
  IN IF self_url = Nothing \/ self_key = Nothing
     THEN [raised |-> "ValueError", connections |-> 0, client |-> Nothing]
     ELSE IF ~connects
     THEN [raised |-> "Exception", connections |-> 1, client |-> Nothing]
     ELSE [raised |-> None, connections |-> 1,
           client |-> Some([url |-> self_url[1], key |-> self_key[1]])]

\* a construction and how it ended
Construction(op, url, key, made, returned) ==
  Some([op |-> op, url |-> url, key |-> key, environ |-> environ,
        raised |-> made.raised, connections |-> made.connections,
        returned |-> returned])

\* the explicit arguments of a construction
ExplicitUrls == {Nothing, Some("https://project.supabase.co")}
ExplicitKeys == {Nothing, Some("service-key")}

\* a caller constructs a client itself
SC_Construct ==
  /\ module_env # Nothing
  /\ \E url \in ExplicitUrls, key \in ExplicitKeys, connects \in BOOLEAN :
       LET made == SupabaseClient(url, key, connects) IN
       s_last' = Construction("SupabaseClient", url, key, made, made.client)
  /\ UNCHANGED <<environ, module_env, singleton>>
  /\ UNCHANGED <<u_last, f_last, nothelpers>>

\* get_supabase_client (lines 342-347)
get_supabase_client(connects) ==
  IF singleton # Nothing
  THEN /\ s_last' = Construction("get_supabase_client", Nothing, Nothing,
                                 [raised |-> None, connections |-> 0], singleton)
       /\ UNCHANGED singleton
  ELSE LET made == SupabaseClient(Nothing, Nothing, connects) IN
       /\ singleton' = made.client
       /\ s_last' = Construction("get_supabase_client", Nothing, Nothing, made, made.client)

SC_GetClient ==
  /\ module_env # Nothing
  /\ \E connects \in BOOLEAN : get_supabase_client(connects)
  /\ UNCHANGED <<environ, module_env>>
  /\ UNCHANGED <<u_last, f_last, nothelpers>>

ClientStep ==
  \/ SC_Import
  \/ SC_SetEnv
  \/ SC_PopEnv
  \/ SC_Construct
  \/ SC_GetClient

\* ------------------------------------------------------------------------
\* Programs that are not running
\* ------------------------------------------------------------------------
MigrateIdle ==
  /\ m_files = <<>>
  /\ m_dry_run = FALSE
  /\ m_force = FALSE
  /\ m_embedder = FALSE
  /\ pc_m = "idle"
  /\ mi = 0
  /\ stats = StatsInit
  /\ m_log = <<>>

BackfillIdle ==
  /\ k_dry_run = FALSE
  /\ k_limit = 0
  /\ k_regen = FALSE
  /\ pc_k = "idle"
  /\ media_items = <<>>
  /\ ki = 0
  /\ success_count = 0
  /\ error_count = 0
  /\ affected_post_ids = {}
  /\ k_log = <<>>
  /\ k_run = 0
  /\ k_before = {}

BotIdle ==
  /\ conv = [u \in Users |-> "END"]
  /\ user_data = [u \in Users |-> NoUserData]
  /\ bot_log = <<>>
  /\ t_last = Nothing

DbEmpty ==
  /\ posts = <<>>
  /\ media = <<>>

\* the vector store is empty and has not been called
VectorIdle ==
  /\ collection = <<>>
  /\ v_added = {}
  /\ v_last = Nothing

\* describe_image has not been called
VisionIdle == x_last = Nothing

HelpersIdle ==
  /\ u_last = Nothing
  /\ f_last = Nothing
  /\ environ = {}
  /\ module_env = Nothing
  /\ singleton = Nothing
  /\ s_last = Nothing

\* no bulk import is running
BulkIdle ==
  /\ index_posts = {}
  /\ post_files = <<>>
  /\ vector_ids = {}
  /\ vector_docs = <<>>
  /\ urls = <<>>
  /\ dry_run = FALSE
  /\ pc_b = "idle"
  /\ BulkLocalsInit
  /\ run = 0
  /\ runlog = <<>>

\* fetch_thread is not running
FetchIdle ==
  /\ tweet_url = Url("x.com", "alice", "status", 100)
  /\ max_depth = DefaultMaxDepth
  /\ pc_f = "idle"
  /\ FetchLocalsInit

\* ------------------------------------------------------------------------
\* Specification of one call of fetch_thread, for any URL of FetchUrls, any
\* max_depth of 0..MaxDepth and any answers of the mirrors
\* ------------------------------------------------------------------------
InitFetch ==
  /\ api = [i \in TweetIds |-> Nothing]
  /\ tweet_url \in FetchUrls
  /\ max_depth \in 0..MaxDepth
  /\ pc_f = "start"
  /\ FetchLocalsInit
  /\ BulkIdle
  /\ DbEmpty
  /\ MigrateIdle
  /\ BackfillIdle
  /\ BotIdle
  /\ VectorIdle
  /\ VisionIdle
  /\ HelpersIdle

NextFetch == FetchStep

SpecFetch == InitFetch /\ [][NextFetch]_vars

\* fetch_thread is sequential code: whenever it has a next step it takes it
SpecFetchLive == SpecFetch /\ WF_vars(NextFetch)

\* ------------------------------------------------------------------------
\* Specification of bulk imports of one export, run up to MaxRuns times, for
\* any export of Exports, any index and any answers of BulkWorlds
\* ------------------------------------------------------------------------
InitBulk ==
  /\ api \in BulkWorlds
  /\ FetchIdle
  /\ index_posts \in SUBSET {98, 100}
  /\ post_files = [i \in index_posts |-> [id |-> i, url |-> Url("x.com", AuthorOf(i), "status", i),
                                          tweet_ids |-> <<i>>,
                                          author |-> AuthorOf(i), content |-> <<i>>]]
  /\ vector_ids = {}
  /\ vector_docs = <<>>
  /\ urls \in Exports
  /\ dry_run \in BOOLEAN
  /\ pc_b = "start"
  /\ BulkLocalsInit
  /\ run = 1
  /\ runlog = <<>>
  /\ DbEmpty
  /\ MigrateIdle
  /\ BackfillIdle
  /\ BotIdle
  /\ VectorIdle
  /\ VisionIdle
  /\ HelpersIdle

NextBulk == BulkStep

SpecBulk == InitBulk /\ [][NextBulk]_vars

\* ------------------------------------------------------------------------
\* Specification of one run of migrate_posts, for any sorted list of post
\* files, any arguments, and a table posts that is empty or holds the row
\* the bot wrote for post 100
\* ------------------------------------------------------------------------
InitMigrate ==
  /\ api = [i \in TweetIds |-> Nothing]
  /\ FetchIdle
  /\ BulkIdle
  /\ BackfillIdle
  /\ BotIdle
  /\ VectorIdle
  /\ VisionIdle
  /\ HelpersIdle
  /\ posts \in {<<>>, [i \in {100} |-> BotRow]}
  /\ media = <<>>
  /\ m_files \in SortedFiles(100)
  /\ m_dry_run \in BOOLEAN
  /\ m_force \in BOOLEAN
  /\ m_embedder \in BOOLEAN
  /\ pc_m = "start"
  /\ mi = 0
  /\ stats = StatsInit
  /\ m_log = <<>>

NextMigrate == MigrateStep

SpecMigrate == InitMigrate /\ [][NextMigrate]_vars

\* the tables of post_media before a backfill: up to MaxMediaRows rows of
\* post 100, with or without a description
RECURSIVE MediaTables(_)
MediaTables(n) ==
  IF n = 0 THEN {<<>>}
  ELSE MediaTables(n - 1)
       \cup {insert_media(t, 100, "image url", d) :
               t \in {u \in MediaTables(n - 1) : Len(u) = n - 1},
               d \in {Null, "description"}}

\* ------------------------------------------------------------------------
\* Specification of one run of backfill_descriptions, for any arguments and
\* any table of MediaTables
\* ------------------------------------------------------------------------
InitBackfill ==
  /\ api = [i \in TweetIds |-> Nothing]
  /\ FetchIdle
  /\ BulkIdle
  /\ MigrateIdle
  /\ BotIdle
  /\ VectorIdle
  /\ VisionIdle
  /\ HelpersIdle
  /\ posts \in {<<>>, [i \in {100} |-> BotRow]}
  /\ media \in MediaTables(MaxMediaRows)
  /\ k_dry_run \in BOOLEAN
  /\ k_limit \in 0..MaxMediaRows
  /\ k_regen \in BOOLEAN
  /\ pc_k = "start"
  /\ media_items = <<>>
  /\ ki = 0
  /\ success_count = 0
  /\ error_count = 0
  /\ affected_post_ids = {}
  /\ k_log = <<>>
  /\ k_run = 1
  /\ k_before = {}

NextBackfill == BackfillStep

SpecBackfill == InitBackfill /\ [][NextBackfill]_vars

\* ------------------------------------------------------------------------
\* Specification of the bot serving its users, whose updates are handled
\* one at a time in any order, on a database that starts empty
\* ------------------------------------------------------------------------
InitBot ==
  /\ api = [i \in TweetIds |-> Nothing]
  /\ FetchIdle
  /\ BulkIdle
  /\ MigrateIdle
  /\ BackfillIdle
  /\ DbEmpty
  /\ BotIdle
  /\ VectorIdle
  /\ VisionIdle
  /\ HelpersIdle

NextBot == BotStep

SpecBot == InitBot /\ [][NextBot]_vars

\* ------------------------------------------------------------------------
\* Specification of the bot talking to one allowed user and to one user that
\* is not allowed
\* ------------------------------------------------------------------------
ChatUsers == {1, 3}

NextChat ==
  \/ \E u \in ChatUsers : HU_Rejected(u)
  \/ \E u \in ChatUsers : HU_Duplicate(u)
  \/ \E u \in ChatUsers : HU_NotFetched(u)
  \/ \E u \in ChatUsers : HU_Preview(u)
  \/ \E u \in ChatUsers : CC_Cancel(u)
  \/ \E u \in ChatUsers : CC_Quick(u)
  \/ \E u \in ChatUsers : CC_Full(u)
  \/ \E u \in ChatUsers : add_tags(u)
  \/ \E u \in ChatUsers : add_topics(u)
  \/ \E u \in ChatUsers : add_notes(u)
  \/ \E u \in ChatUsers : cancel(u)

SpecChat == InitBot /\ [][NextChat]_vars

\* ------------------------------------------------------------------------
\* Specification of one run of one of the three import drivers
\* ------------------------------------------------------------------------
InitDrivers == InitBulk \/ InitMigrate \/ InitBackfill

NextDrivers ==
  \/ NextBulk
  \/ NextMigrate
  \/ NextBackfill

SpecDrivers == InitDrivers /\ [][NextDrivers]_vars

\* ------------------------------------------------------------------------
\* Specification of the vector store under any sequence of calls
\* ------------------------------------------------------------------------
InitVector ==
  /\ api = [i \in TweetIds |-> Nothing]
  /\ FetchIdle
  /\ BulkIdle
  /\ DbEmpty
  /\ MigrateIdle
  /\ BackfillIdle
  /\ BotIdle
  /\ VectorIdle
  /\ VisionIdle
  /\ HelpersIdle

NextVector == VectorStep

SpecVector == InitVector /\ [][NextVector]_vars

\* ------------------------------------------------------------------------
\* Specification of describe_image, for any download, context, hint and
\* answers of the model
\* ------------------------------------------------------------------------
InitVision == InitVector

NextVision == XI_DescribeImage

SpecVision == InitVision /\ [][NextVision]_vars

\* ------------------------------------------------------------------------
\* Specification of the URL extractors, for any URL
\* ------------------------------------------------------------------------
InitUrls == InitVector

NextUrls == UH_Extract

SpecUrls == InitUrls /\ [][NextUrls]_vars

\* ------------------------------------------------------------------------
\* Specification of the metadata of add_post, for any metadata and content
\* ------------------------------------------------------------------------
InitMetadata == InitVector

NextMetadata == VS_AddPostMetadata

SpecMetadata == InitMetadata /\ [][NextMetadata]_vars

\* ------------------------------------------------------------------------
\* Specification of a process that imports src/supabase/client.py, changes
\* its environment and asks for clients, in any order
\* ------------------------------------------------------------------------
InitClient == InitVector

NextClient == ClientStep

SpecClient == InitClient /\ [][NextClient]_vars

\* ------------------------------------------------------------------------
\* Properties of fetch_thread
\* ------------------------------------------------------------------------
Ids(tw) == [j \in 1..Len(tw) |-> tw[j].id]

Returned == pc_f = "done"
ReturnedThread == pc_f = "done" /\ result.kind = "Thread"

\* the requests made for parents (lines 233 and 249), and those answered
ParentCalls == {j \in DOMAIN net : net[j].site = "parent"}
ParentCallsOk == {j \in ParentCalls : net[j].ok}
OriginCalls(mirror) == {j \in DOMAIN net : net[j].site = "origin" /\ net[j].op = mirror}

\* the parent pointer FxTwitter gave for tweet i, and whether it names the
\* origin's author
ParentOf(i) == api[i][1].replying_to_status
HasSameAuthorParent(i) ==
  /\ api[i] # Nothing
  /\ ParentOf(i) # NoId
  /\ Lower(api[i][1].replying_to) = Lower(AuthorOf(tweet_id))

\* the ids of the origin response's thread.tweets after the first, written
\* by the origin's author, in response order
Continuations ==
  IF source = "fxtwitter" /\ data.thread # Nothing
  THEN SelectSeq(SkipFirst(data.thread[1]),
                 LAMBDA i : Lower(AuthorOf(i)) = Lower(AuthorOf(tweet_id)))
  ELSE <<>>

\* the continuations appended while the sequence holds fewer than max_depth
\* tweets
KeptContinuations ==
  SubSeq(Continuations, 1, Min(Len(Continuations), Max(max_depth - 1, 0)))

\* grandparent 99 -> parent 100 -> child 101, same author, fetched at 101
ExampleChain ==
  /\ tweet_id = 101 /\ source = "fxtwitter" /\ max_depth >= 3
  /\ Continuations = <<>>
  /\ HasSameAuthorParent(101) /\ ParentOf(101) = 100
  /\ HasSameAuthorParent(100) /\ ParentOf(100) = 99
  /\ api[99] # Nothing /\ ParentOf(99) = NoId

\* origin 100, same-author parent 99 without parent, one continuation 101
ExampleForward ==
  /\ tweet_id = 100 /\ source = "fxtwitter" /\ max_depth >= 3
  /\ data.thread = Some(<<100, 101>>)
  /\ HasSameAuthorParent(100) /\ ParentOf(100) = 99
  /\ api[99] # Nothing /\ ParentOf(99) = NoId

\* C1: the Thread fetch_thread returns holds, earliest first, the
\* same-author ancestors reached through replying_to_status (each the parent
\* of the next; the walk ended at an ancestor without same-author parent, at
\* a failed fetch or at the depth bound), then the origin tweet, then the
\* same-author continuations in response order (those appended before the
\* sequence held max_depth tweets), and total_count is its length. The chain
\* 99 -> 100 -> 101 fetched at 101 gives [99, 100, 101], and so does origin
\* 100 with parent 99 and continuation 101.
C1_ThreadOrder ==
  ReturnedThread =>
    LET ids == Ids(result.tweets)
        k == Cardinality(ParentCallsOk) + 1
    IN /\ result.total_count = Len(ids)
       /\ Len(ids) = k + Len(KeptContinuations)
       /\ ids[k] = tweet_id
       /\ SubSeq(ids, k + 1, Len(ids)) = KeptContinuations
       /\ \A j \in 1..(k - 1) : HasSameAuthorParent(ids[j + 1]) /\ ParentOf(ids[j + 1]) = ids[j]
       /\ \/ source = "vxtwitter"
          \/ ~HasSameAuthorParent(ids[1])
          \/ Last(net) = Call("fx", ParentOf(ids[1]), "parent", FALSE)
          \/ k - 1 >= 1 /\ k - 1 >= max_depth
       /\ ExampleChain => ids = <<99, 100, 101>> /\ result.total_count = 3
       /\ ExampleForward => ids = <<99, 100, 101>> /\ result.total_count = 3

\* C1 witness: origin 100 with one ancestor and one continuation returned
C1_Witness ==
  /\ ReturnedThread /\ ExampleForward
  /\ Ids(result.tweets) = <<99, 100, 101>>

\* C2: for every max_depth >= 0 and any answers of the API, cycles of parent
\* pointers included, the backward walk of fetch_thread makes at most
\* max_depth parent fetches. (That fetch_thread then terminates and returns
\* is BoundedWalkTerminates below.)
C2_AtMostMaxDepthParentFetches == Cardinality(ParentCalls) <= max_depth

\* What fetch_thread does: the fetch of the first parent (line 233) comes
\* before the loop that max_depth guards, so it makes at most
\* max(max_depth, 1) parent fetches; and it terminates and returns, cycles
\* of parent pointers included.
BoundedWalkTerminates ==
  /\ [](Cardinality(ParentCalls) <= Max(max_depth, 1))
  /\ <>(Returned /\ result # NotReturned)

\* C2: a walk through a cycle of parent pointers that used all of its
\* max_depth parent fetches and returned
C2_Witness ==
  /\ Returned /\ max_depth >= 2
  /\ Cardinality(ParentCalls) = max_depth
  /\ \E a, b \in ParentCalls : a # b /\ net[a].id = net[b].id

\* C3: when a parent fetch fails, at whichever hop, fetch_thread returns a
\* Thread (never None): the ancestors fetched before it (last fetched
\* first), the origin, and the continuations appended, with total_count its
\* length.
C3_PartialThreadOnParentFailure ==
  (Returned /\ net # <<>> /\ Last(net).site = "parent" /\ ~Last(net).ok) =>
    /\ result.kind = "Thread"
    /\ Ids(result.tweets) =
         [j \in 1..Cardinality(ParentCallsOk) |->
            net[CHOOSE c \in ParentCallsOk :
                  Cardinality({b \in ParentCallsOk : b >= c}) = j].id]
         \o <<tweet_id>> \o KeptContinuations
    /\ result.total_count = Len(result.tweets)

\* C3 witness: the fetch of the second ancestor failed after a first
\* ancestor and a continuation were in the thread
C3_Witness ==
  /\ Returned /\ net # <<>> /\ Last(net).site = "parent" /\ ~Last(net).ok
  /\ Cardinality(ParentCallsOk) = 1
  /\ Len(KeptContinuations) = 1
  /\ result.kind = "Thread" /\ result.total_count = 3

\* C4: for the origin tweet VxTwitter is queried only right after FxTwitter
\* failed, neither mirror is queried twice, and fetch_thread returns None
\* exactly when no id is extracted from the URL or both mirrors failed;
\* otherwise it returns a Thread of at least one tweet.
C4_SingleFallback ==
  /\ Cardinality(OriginCalls("fx")) <= 1
  /\ Cardinality(OriginCalls("vx")) <= 1
  /\ \A j \in OriginCalls("vx") :
        j = 2 /\ net[1] = Call("fx", net[j].id, "origin", FALSE)
  /\ Returned =>
       /\ result.kind \in {"None", "Thread"}
       /\ result.kind = "None" <=>
            \/ extract_tweet_id(tweet_url) = NoId
            \/ /\ Len(net) = 2
               /\ net[1] = Call("fx", tweet_id, "origin", FALSE)
               /\ net[2] = Call("vx", tweet_id, "origin", FALSE)
       /\ result.kind = "Thread" => Len(result.tweets) >= 1

\* C4 witness: both mirrors failed and fetch_thread returned None
C4_Witness ==
  /\ Returned /\ result.kind = "None"
  /\ Len(net) = 2 /\ ~net[1].ok /\ ~net[2].ok /\ net[2].op = "vx"

\* every replying_to the API gave names the author of the tweet its
\* replying_to_status identifies
RepliesNameParentAuthor ==
  \A i \in TweetIds :
    (api[i] # Nothing /\ ParentOf(i) # NoId) =>
      Lower(api[i][1].replying_to) = Lower(AuthorOf(ParentOf(i)))

\* C5: when every replying_to names the author of the tweet replying_to_status
\* identifies, every tweet of the returned Thread has the origin's author
\* handle, compared case-insensitively.
C5_OneAuthor ==
  (ReturnedThread /\ RepliesNameParentAuthor) =>
    /\ Lower(result.author_handle) = Lower(AuthorOf(tweet_id))
    /\ \A j \in 1..Len(result.tweets) :
         Lower(result.tweets[j].author_handle) = Lower(result.author_handle)

\* C5 witness: a thread of two spellings of one handle, whose walk stopped
\* at a parent by another author and whose response held a continuation by
\* another author
C5_Witness ==
  /\ ReturnedThread /\ RepliesNameParentAuthor
  /\ source = "fxtwitter" /\ data.thread # Nothing
  /\ 98 \in Range(data.thread[1])
  /\ Ids(result.tweets)[1] = 99
  /\ ParentOf(99) = 98
  /\ Len(result.tweets) >= 3

\* ------------------------------------------------------------------------
\* Properties of bulk import
\* ------------------------------------------------------------------------
\* how many times fetch_thread was called with u in this run
Attempts(u) == Cardinality({j \in 1..Len(attempts) : attempts[j] = u})

\* main runs confirmed and not as a dry run, and index.json is still the one
\* check_duplicates read
BeforeSaveIndex == pc_b \in {"fetch", "fetching", "save", "saving"}

\* fetch_posts has gone through new_urls
FetchLoopOver == pc_b \in {"save", "saving"} \/ (pc_b = "fetch" /\ fi > Len(new_urls))

\* C6: a confirmed bulk import that is not a dry run calls fetch_thread
\* exactly once for each URL of the export whose id is not in the index and
\* never for a URL whose id is in the index; each of the latter is reported
\* as already archived (skipped). An export of one archived and one new URL
\* gives one call and one skip.
C6_OneFetchPerNewUrl ==
  BeforeSaveIndex =>
    /\ \A k \in 1..Len(urls) :
         IF extract_tweet_id(urls[k]) \in index_posts
         THEN Attempts(urls[k]) = 0 /\ urls[k] \in Range(duplicate_urls)
         ELSE /\ Attempts(urls[k]) <= 1
              /\ urls[k] \notin Range(duplicate_urls)
              /\ FetchLoopOver => Attempts(urls[k]) = 1
    /\ Range(attempts) \subseteq Range(urls)
    /\ Len(duplicate_urls) = Cardinality({k \in 1..Len(urls) : extract_tweet_id(urls[k]) \in index_posts})
    /\ (FetchLoopOver /\ Len(urls) = 2 /\ Len(duplicate_urls) = 1) => Len(attempts) = 1

\* C6 witness: an export of one archived and one new URL after fetch_posts:
\* one skip, one call
C6_Witness ==
  /\ FetchLoopOver /\ pc_b = "save"
  /\ Len(urls) = 2 /\ Len(duplicate_urls) = 1 /\ Len(attempts) = 1
  /\ extract_tweet_id(duplicate_urls[1]) \in index_posts

\* the first run called fetch_thread for every URL of the export, none
\* failed, and every thread was saved
FirstRunSavedAll ==
  /\ runlog # <<>>
  /\ runlog[1].attempts = urls
  /\ runlog[1].failures = <<>>
  /\ Len(runlog[1].saved_ids) = Len(urls)

\* C8: a second bulk import of the same export, after a first one that
\* fetched and saved every URL, finds every URL archived and fetches and
\* saves nothing; every post is saved under the id check_duplicates looks
\* up for its URL.
C8_SecondRunFindsAllArchived ==
  /\ (run = 2 /\ FirstRunSavedAll /\ pc_b \notin {"start", "check_duplicates"}) =>
       /\ new_urls = <<>>
       /\ duplicate_urls = urls
       /\ attempts = <<>>
       /\ saved_ids = <<>>
  /\ pc_b = "saving" =>
       \A k \in 1..Len(saved_ids) : saved_ids[k] = extract_tweet_id(successes[k].url)

\* ------------------------------------------------------------------------
\* Properties of migrate_posts
\* ------------------------------------------------------------------------
\* C9: in a migration that is not a dry run, a file whose id is in table
\* posts is skipped and its row left as it was when force is not set; when
\* force is set its row becomes the record built from the file, no column
\* keeping the value of the old row, and the table holds one row for the id.
C9_ForceOverwritesElseSkips ==
  ~m_dry_run =>
    \A k \in 1..Len(m_log) :
      /\ m_log[k].kind = "skipped" =>
           ~m_force /\ post_exists(m_log[k].id) /\ posts[m_log[k].id] = BotRow
      /\ (m_log[k].kind = "migrated" /\ m_log[k].existed) =>
           /\ m_force
           /\ post_exists(m_log[k].id)
           /\ posts[m_log[k].id] = m_log[k].record

\* ------------------------------------------------------------------------
\* Properties of the per-item loops
\* ------------------------------------------------------------------------
IsPrefix(s, t) == Len(s) <= Len(t) /\ SubSeq(t, 1, Len(s)) = s

Raised(kind) == kind \in {"parse raised", "post_exists raised", "upsert raised",
                          "insert_media raised", "raised"}

\* how many entries of log l satisfy Raised, or do not say "updated"
RaisedIn(l) == Cardinality({k \in 1..Len(l) : Raised(l[k].kind)})
NotUpdatedIn(l) == Cardinality({k \in 1..Len(l) : l[k].kind # "updated"})

\* each loop has dealt with every item before the place it is at, and has
\* counted each exception as a failure
LoopsGoOn ==
  /\ pc_b = "fetch" =>
       /\ attempts = SubSeq(new_urls, 1, fi - 1)
       /\ Len(successes) + Len(failures) = fi - 1
  /\ FetchLoopOver => attempts = new_urls
  /\ pc_m = "loop" => Len(m_log) = mi - 1
  /\ (pc_m = "done" /\ m_files # <<>>) =>
       /\ Len(m_log) = Len(m_files)
       /\ \A k \in 1..Len(m_files) : m_log[k].id = m_files[k].id
  /\ pc_m \in {"loop", "done"} => stats.errors = RaisedIn(m_log)
  /\ pc_k = "loop" => Len(k_log) = ki - 1
  /\ (pc_k \in {"regenerate", "done"} /\ ~k_dry_run) =>
       /\ k_log = [k \in 1..Len(media_items) |->
                    [id |-> media_items[k], kind |-> k_log[k].kind]]
       /\ error_count = NotUpdatedIn(k_log)
       /\ success_count + error_count = Len(media_items)

\* what the loops wrote for earlier items is there
WritesStay ==
  /\ \A k \in 1..Len(m_log) :
       m_log[k].kind = "migrated" =>
         post_exists(m_log[k].id) /\ posts[m_log[k].id]["content"] = "file text"
  /\ \A k \in 1..Len(k_log) :
       k_log[k].kind = "updated" => media[k_log[k].id].description = "description"

\* a step in which an item raises adds a failure, keeps what was collected
\* and written, and moves to the next item; no step drops a success, a row
\* or a description
RaiseIsCaught ==
  /\ pc_f' = "raised" /\ pc_f # "raised" =>
       /\ Len(failures') = Len(failures) + 1
       /\ successes' = successes
       /\ fi' = fi + 1 /\ pc_b' = "fetch"
  /\ run' = run => IsPrefix(successes, successes')
  /\ Len(m_log') > Len(m_log) /\ Raised(Last(m_log').kind) =>
       /\ mi' = mi + 1 /\ pc_m' = "loop"
       /\ \A i \in DOMAIN posts : i # Last(m_log').id => i \in DOMAIN posts' /\ posts'[i] = posts[i]
       /\ IsPrefix(media, media')
  /\ Len(k_log') > Len(k_log) /\ Last(k_log').kind # "updated" =>
       /\ ki' = ki + 1 /\ pc_k' = "loop"
       /\ media' = media /\ posts' = posts
  /\ \A i \in DOMAIN posts : i \in DOMAIN posts'
  /\ Len(media) <= Len(media')
  /\ \A k \in 1..Len(media) : media[k].description # Null => media'[k] = media[k]

\* C10: in the loops of fetch_posts, migrate_posts and
\* backfill_descriptions an exception raised by one item is caught and
\* counted as a failure, every later item is still processed, and what was
\* written for earlier items stays written.
C10_FailuresAreIsolated ==
  /\ [](LoopsGoOn /\ WritesStay)
  /\ [][RaiseIsCaught]_vars

\* C10 witness: the first file of a migration raised, the second was written
C10_Witness ==
  /\ pc_m = "done" /\ Len(m_log) = 2
  /\ Raised(m_log[1].kind)
  /\ m_log[2].kind = "migrated"
  /\ stats.errors = 1 /\ stats.migrated = 1

\* ------------------------------------------------------------------------
\* Properties of the bot
\* ------------------------------------------------------------------------
\* C7: saving a post whose id is already in the store does not fail and
\* does not add a second record: the record of the id is updated. (Table
\* posts holds one row per id by its key, so a save of an id that is there
\* either updates the row or fails.)
C7_SaveOfExistingIdUpdates ==
  \A k \in 1..Len(bot_log) :
    bot_log[k].existed => bot_log[k].kind \in {"saved", "raised"}

\* ------------------------------------------------------------------------
\* Properties of the save phase of bulk import
\* ------------------------------------------------------------------------
\* a run of main is over, by return, by sys.exit or by an exception
RunOver == pc_b \in {"exit", "crashed"}

\* C11: when a run of bulk import is over, also one in which saving a post
\* raised, every post file written has its entry in the index on disk, so
\* that a later duplicate check recognises it.
C11_WrittenFilesAreIndexed ==
  RunOver => DOMAIN post_files \subseteq index_posts

\* ------------------------------------------------------------------------
\* Properties of the vector store
\* ------------------------------------------------------------------------
VLast(op) == v_last # Nothing /\ v_last.op = op

\* C12: after any sequence of add_post (and delete_post) calls, count() is
\* the number of distinct ids added and not deleted: adding an id that is
\* present overwrites its entry and leaves count() as it was.
C12_CountIsDistinctIds ==
  /\ count = Cardinality(v_added)
  /\ IdsOf(collection) = v_added
  /\ (VLast("add_post") /\ ~v_last.failed /\ v_last.id \in IdsOf(v_last.before)) =>
       /\ count = Len(v_last.before)
       /\ \A j \in DOMAIN collection :
            collection[j].id = v_last.id \/ collection[j] = v_last.before[j]

\* C12 witness: an id held with one document was added again with another
C12_Witness ==
  /\ VLast("add_post") /\ ~v_last.failed
  /\ \E j \in DOMAIN v_last.before :
       /\ collection[j].id = v_last.id
       /\ v_last.before[j].id = v_last.id
       /\ collection[j].document # v_last.before[j].document
  /\ count = 2

\* C13: get_similar(id, k) returns at most k entries, none of them with that
\* id; for an id in the index it returns min(k, count - 1) entries; for an
\* id not in the index it returns the empty list.
C13_SimilarExcludesSelf ==
  VLast("get_similar") =>
    LET r == v_last.result
    IN /\ Len(r) <= v_last.k
       /\ \A j \in DOMAIN r : r[j].id # v_last.id
       /\ v_last.id \in IdsOf(collection) => Len(r) = Min(v_last.k, count - 1)
       /\ v_last.id \notin IdsOf(collection) => r = <<>>

\* C13 witness: with three entries, get_similar(id, 2) returned the two others
C13_Witness ==
  /\ VLast("get_similar")
  /\ count = 3 /\ v_last.k = 2
  /\ v_last.id \in IdsOf(collection)
  /\ Len(v_last.result) = 2

\* C14: delete_post(id) returns True and removes the entry when id is
\* present (and the collection did not fail), and returns False and leaves
\* the index as it was when id is not present.
C14_DeleteAbsentReturnsFalse ==
  VLast("delete_post") =>
    /\ (v_last.id \in IdsOf(v_last.before) /\ ~v_last.failed) =>
         v_last.result = TRUE /\ v_last.id \notin IdsOf(collection)
    /\ v_last.id \notin IdsOf(v_last.before) =>
         v_last.result = FALSE /\ collection = v_last.before

\* ------------------------------------------------------------------------
\* Properties of describe_image
\* ------------------------------------------------------------------------
Described == x_last # Nothing
ImageRejected ==
  x_last.download.status = "error" \/ x_last.download.size > MaxImageBytes
HintGiven == x_last.category_hint \notin {None, ""}
KeywordIn(kws) ==
  /\ x_last.post_context # Nothing
  /\ \E kw \in kws : Contains(kw, str_lower(x_last.post_context[1]))
ReplyNames(word) ==
  /\ ~x_last.classification.raises
  /\ Contains(word, str_lower(x_last.classification.text))

\* C15: describe_image returns null when the download fails, when the image
\* is over the size threshold and when the description call of the model
\* fails; a result it returns carries the model's description, never a
\* partial one or a placeholder; a rejected image causes no model call.
C15_FailClosed ==
  Described =>
    /\ ImageRejected => x_last.returned.result = Nothing /\ x_last.returned.calls = <<>>
    /\ x_last.extraction.raises => x_last.returned.result = Nothing
    /\ x_last.returned.result # Nothing =>
         x_last.returned.result[1].description = <<x_last.extraction.text>>

\* the part of C15 that holds: a download that failed or is over the
\* threshold gives null without a model call
RejectedImageIsNull ==
  (Described /\ ImageRejected) =>
    x_last.returned.result = Nothing /\ x_last.returned.calls = <<>>

\* C16: the category reported is the hint when one is given; otherwise the
\* one inferred from the keywords of the context, text_heavy keywords first;
\* otherwise the model's classification, which is general when the reply
\* names neither text_heavy nor chart or the call failed. The classification
\* call is made only when no hint is given and no keyword matches.
C16_CategoryOrder ==
  (Described /\ x_last.returned.result # Nothing) =>
    LET category == x_last.returned.result[1].category
        text_heavy == <<"t", "e", "x", "t", "_", "h", "e", "a", "v", "y">>
        chart == <<"c", "h", "a", "r", "t">>
        classified == "detect_category" \in Range(x_last.returned.calls)
    IN /\ HintGiven => category = x_last.category_hint
       /\ (~HintGiven /\ KeywordIn(text_keywords)) => category = "text_heavy"
       /\ (~HintGiven /\ ~KeywordIn(text_keywords) /\ KeywordIn(chart_keywords)) =>
            category = "chart"
       /\ classified <=>
            (~HintGiven /\ ~KeywordIn(text_keywords) /\ ~KeywordIn(chart_keywords))
       /\ classified =>
            /\ category \in {"text_heavy", "chart", "general"}
            /\ (x_last.classification.raises \/ (~ReplyNames(text_heavy) /\ ~ReplyNames(chart))) =>
                 category = "general"
            /\ (ReplyNames(text_heavy) /\ ~ReplyNames(chart)) => category = "text_heavy"
            /\ (ReplyNames(chart) /\ ~ReplyNames(text_heavy)) => category = "chart"

\* C16 witness: no hint, a context with a text_heavy and a chart keyword
C16_Witness ==
  /\ Described /\ x_last.returned.result # Nothing
  /\ ~HintGiven
  /\ KeywordIn(text_keywords) /\ KeywordIn(chart_keywords)
  /\ x_last.returned.result[1].category = "text_heavy"
  /\ x_last.returned.calls = <<"extract_description">>

\* ------------------------------------------------------------------------
\* Properties of the archive conversation
\* ------------------------------------------------------------------------
\* the state that follows s in the conversation (the URL state is END: no
\* conversation is under way and the next text message is the URL)
FollowingState(s) ==
  CASE s = "END" -> "CONFIRM_CONTENT"
    [] s = "CONFIRM_CONTENT" -> "ADD_TAGS"
    [] s = "ADD_TAGS" -> "ADD_TOPICS"
    [] s = "ADD_TOPICS" -> "ADD_NOTES"
    [] s = "ADD_NOTES" -> "END"

\* in this step save_archived_post is called: every call of it is logged
SaveIsCalled == bot_log' # bot_log
\* this step ends a conversation by /cancel or by the cancel button
IsCancelled == t_last' # Nothing /\ t_last'[1].by \in {"/cancel", "button"}

\* a conversation moves to the following state, or it ends at
\* CONFIRM_CONTENT by quick save, or it is cancelled
MovesInOrder(u) ==
  conv'[u] # conv[u] =>
    \/ conv'[u] = FollowingState(conv[u])
    \/ /\ conv[u] = "CONFIRM_CONTENT" /\ conv'[u] = "END"
       /\ SaveIsCalled /\ t_last'[1].by = "quick"
    \/ conv'[u] = "END" /\ IsCancelled /\ ~SaveIsCalled

\* save_archived_post is called once, at the quick save with empty tags,
\* empty topics and no notes, or at ADD_NOTES, and the conversation is ended
SavesAtTheEnd ==
  SaveIsCalled =>
    /\ Len(bot_log') = Len(bot_log) + 1
    /\ SubSeq(bot_log', 1, Len(bot_log)) = bot_log
    /\ LET u == Last(bot_log').user
       IN /\ conv[u] \in {"CONFIRM_CONTENT", "ADD_NOTES"}
          /\ conv'[u] = "END"
          /\ t_last'[1].at = conv[u]
          /\ conv[u] = "CONFIRM_CONTENT" =>
               /\ t_last'[1].by = "quick"
               /\ t_last'[1].tags = Some(<<>>)
               /\ t_last'[1].topics = Some(<<>>)
               /\ t_last'[1].notes = Some(None)
          /\ conv[u] = "ADD_NOTES" => t_last'[1].by = "notes"

CancelIsHandled == \A u \in Users : conv[u] # "END" => ENABLED cancel(u)

\* a cancellation ends the conversation, clears user_data and writes nothing
CancelWritesNothing ==
  \A u \in Users :
    (conv[u] # "END" /\ conv'[u] = "END" /\ IsCancelled /\ ~SaveIsCalled) =>
      /\ user_data'[u] = NoUserData
      /\ posts' = posts
      /\ media' = media

MediaDescribedOnce ==
  /\ Len(media') >= Len(media)
  /\ \A k \in DOMAIN media :
       media'[k] # media[k] =>
         /\ media[k].description = Null
         /\ media'[k] = [media[k] EXCEPT !.description = media'[k].description]
         /\ media'[k].description # Null

\* the items a run has still to process have no description, and none of
\* them was updated by the run itself or by an earlier run
SelectsOnlyUndescribed ==
  pc_k = "loop" =>
    \A j \in ki..Len(media_items) :
      /\ media[media_items[j]].description = Null
      /\ media_items[j] \notin UpdatedIn(k_log)
      /\ media_items[j] \notin k_before

\* C19: over any sequence of backfill runs a media item is updated only
\* while its description is null; once it has a description no later run
\* selects or modifies it, so it is mutated at most once; no media row is
\* deleted.
C19_MediaMutatedAtMostOnce ==
  /\ []SelectsOnlyUndescribed
  /\ [][MediaDescribedOnce]_vars

\* C19 witness: a first run described item 1, a second run passed it over
\* and described item 2
C19_Witness ==
  /\ k_run = 2
  /\ k_before = {1}
  /\ pc_k = "done"
  /\ UpdatedIn(k_log) = {2}

\* ------------------------------------------------------------------------
\* Properties of dry runs
\* ------------------------------------------------------------------------
\* the posts, the media rows, the file index with the post files, and the
\* vector index are left as they are
StoresUnchanged ==
  UNCHANGED <<posts, media, index_posts, post_files, vector_ids, vector_docs,
              collection>>

\* no call of fetch_thread and no processing of a media item (the only
\* caller of describe_image among the drivers) is begun
NothingCalled ==
  /\ net' = net
  /\ pc_f' = pc_f
  /\ attempts' = <<>>
  /\ k_log' = <<>>

\* a step of a driver run with dry-run set
DryRunStep ==
  (dry_run \/ m_dry_run \/ k_dry_run) => StoresUnchanged /\ NothingCalled

\* a step of bulk import before the fetch phase, or after main has left
\* from the pre-flight report; with dry-run set or without new URLs main
\* leaves from the pre-flight report
NotProceededStep ==
  /\ pc_b \in {"start", "check_duplicates", "preflight"} =>
       StoresUnchanged /\ NothingCalled
  /\ (pc_b = "preflight" /\ (dry_run \/ new_urls = <<>>)) => pc_b' = "exit"
  /\ (pc_b = "exit" /\ attempts = <<>>) => StoresUnchanged /\ NothingCalled

\* C20: with dry-run set bulk import, migrate_posts and
\* backfill_descriptions write nothing to the posts, the media rows, the
\* file index and the vector index, and make no fetch_thread and no vision
\* call; bulk import fetches and writes nothing either when there are no
\* new URLs or when the user declines the confirmation.
C20_DryRunWritesNothing == [][DryRunStep /\ NotProceededStep]_vars

\* C20 witness: a dry run of bulk import has ended on an export with two new
\* URLs, nothing was fetched and nothing written
C20_Witness ==
  /\ dry_run /\ pc_b = "exit"
  /\ Len(new_urls) = 2
  /\ attempts = <<>> /\ net = <<>>
  /\ post_files = <<>> /\ index_posts = {}

\* ------------------------------------------------------------------------
\* Properties of the pauses of the backward walk
\* ------------------------------------------------------------------------
\* the network call at place j of net is a fetch of a parent
IsParentFetch(j) == net[j].op = "fx" /\ net[j].site = "parent"

\* C21: during the backward walk of fetch_thread a sleep occurs between any
\* two consecutive parent fetches, the first parent fetch and the fetch of
\* its own parent included: no parent fetch is directly followed by another.
C21_SleepBetweenParentFetches ==
  \A j \in 1..(Len(net) - 1) : ~(IsParentFetch(j) /\ IsParentFetch(j + 1))

\* ------------------------------------------------------------------------
\* Properties of the URL extractors
\* ------------------------------------------------------------------------
\* a status URL on the canonical domain or on a known mirror domain
ValidStatusUrl(u) ==
  /\ u.host \in {"twitter.com", "x.com", "fxtwitter.com", "vxtwitter.com", "fixupx.com"}
  /\ u.form \in {"status", "web"}

\* the handle that a URL holds: none in the path /i/web/status/ and none in
\* a reserved segment
EmbeddedHandle(u) ==
  IF u.form = "status" /\ u.seg \notin {"i", "intent", "share"} THEN u.seg ELSE None

\* C22: for every valid status URL on the canonical domain or on a known
\* mirror domain the id extractors return the id of the URL and the handle
\* extractors return its handle, and no handle for the reserved segments i,
\* intent and share, in the fetch layer and in the shared utilities alike.
C22_ExtractorsReturnEmbeddedParts ==
  (u_last # Nothing /\ ValidStatusUrl(u_last[1].url)) =>
    /\ u_last[1].tweet_id = u_last[1].url.id
    /\ u_last[1].post_id = u_last[1].url.id
    /\ u_last[1].handle = EmbeddedHandle(u_last[1].url)
    /\ u_last[1].utils_handle = EmbeddedHandle(u_last[1].url)

\* the part of C22 that is about the fetch layer only
FetchLayerExtractors ==
  (u_last # Nothing /\ ValidStatusUrl(u_last[1].url)) =>
    /\ u_last[1].tweet_id = u_last[1].url.id
    /\ u_last[1].post_id = u_last[1].url.id
    /\ u_last[1].handle = EmbeddedHandle(u_last[1].url)

\* ------------------------------------------------------------------------
\* Properties of the metadata of a vector index entry
\* ------------------------------------------------------------------------
\* what _flatten_metadata has to make of a value that is not None
Flattened(value) ==
  IF TypeOf(value) = "list"
  THEN PyStr(join(<<",", " ">>, [j \in DOMAIN ValueOf(value) |-> str(ValueOf(value)[j])]))
  ELSE IF TypeOf(value) \in {"str", "int", "float", "bool"} THEN value
  ELSE PyStr(str(value))

\* the metadata given in the last call, an empty dict for None
GivenMetadata == IF f_last[1].metadata = Nothing THEN <<>> ELSE f_last[1].metadata[1]

\* C23: the metadata stored with a vector index entry holds primitive
\* scalars only: a list has become the comma-joined string of its elements,
\* a key whose value is None is dropped, a str, int, float or bool is kept
\* as it is and any other value is stringified; flattening the flattened
\* metadata again changes nothing.
C23_MetadataIsFlat ==
  f_last # Nothing =>
    LET stored == f_last[1].stored
        given == GivenMetadata
        kept == {k \in DOMAIN given : TypeOf(given[k]) # "NoneType"}
    IN /\ \A k \in DOMAIN stored : TypeOf(stored[k]) \in {"str", "int", "float", "bool"}
       /\ DOMAIN stored = kept \cup {"content_preview"}
       /\ \A k \in kept \ {"content_preview"} : stored[k] = Flattened(given[k])
       /\ flatten_metadata(flatten_metadata(given)) = flatten_metadata(given)
       /\ flatten_metadata(stored) = stored

\* C23 witness: a metadata with a list of two elements, one of them None,
\* and a None value was stored: the list as "a, None", the None value not
C23_Witness ==
  /\ f_last # Nothing
  /\ f_last[1].metadata # Nothing
  /\ DOMAIN GivenMetadata = {"author", "tags"}
  /\ GivenMetadata["author"] = PyNone
  /\ GivenMetadata["tags"] = PyList(<<PyStr(<<"a">>), PyNone>>)
  /\ DOMAIN f_last[1].stored = {"tags", "content_preview"}
  /\ f_last[1].stored["tags"] = PyStr(<<"a", ",", " ", "N", "o", "n", "e">>)

\* ------------------------------------------------------------------------
\* Properties of the construction of the database client
\* ------------------------------------------------------------------------
\* the last call constructed a SupabaseClient without explicit url and key
\* while a variable was absent from the environment
MissingCredentials ==
  /\ s_last # Nothing
  /\ s_last[1].op = "SupabaseClient"
  /\ s_last[1].url = Nothing /\ s_last[1].key = Nothing
  /\ s_last[1].environ # EnvNames

\* the last call was a get_supabase_client that raised
GetClientFailed ==
  /\ s_last # Nothing
  /\ s_last[1].op = "get_supabase_client"
  /\ s_last[1].raised # None

\* a failed get_supabase_client leaves the singleton unset, and a call that
\* raised returned no client
NoHalfBuiltClient ==
  /\ GetClientFailed => singleton = Nothing
  /\ (s_last # Nothing /\ s_last[1].raised # None) => s_last[1].returned = Nothing

\* C24: constructing SupabaseClient without explicit url and key while
\* SUPABASE_URL or SUPABASE_SERVICE_KEY is absent from the environment at
\* construction time raises ValueError before any connection is made, and a
\* get_supabase_client that fails leaves the singleton unset, so that no
\* half-built client is returned later.
C24_MissingCredentialsRaise ==
  /\ MissingCredentials =>
       s_last[1].raised = "ValueError" /\ s_last[1].connections = 0
  /\ NoHalfBuiltClient

\* a get_supabase_client failed for missing credentials and left the
\* singleton unset
C24_Witness ==
  /\ GetClientFailed
  /\ s_last[1].raised = "ValueError"
  /\ singleton = Nothing

\* ------------------------------------------------------------------------
\* Properties of the size and the ids of the returned thread
\* ------------------------------------------------------------------------
\* fetch_thread has returned a Thread
ThreadReturned == pc_f = "done" /\ result.kind = "Thread"

\* C25: for every max_depth >= 1 and every answer of the API the Thread
\* that fetch_thread returns holds at most max_depth tweets, the origin, the
\* forward continuations and the backward ancestors counted together.
C25_AtMostMaxDepthTweets ==
  (ThreadReturned /\ max_depth >= 1) => Len(result.tweets) <= max_depth

\* C26: no tweet id occurs twice in the tweets of the Thread that
\* fetch_thread returns, whatever the API answers: a tweet reached again
\* through a parent pointer, or present already from the forward
\* continuations, is not inserted a second time.
C26_NoTweetTwice ==
  ThreadReturned =>
    \A j, k \in DOMAIN result.tweets :
      result.tweets[j].id = result.tweets[k].id => j = k

\* ------------------------------------------------------------------------
\* Properties of the ids under which bulk import saves
\* ------------------------------------------------------------------------
\* save_posts is in its loop or has returned in this run
InOrAfterSaveLoop == pc_b \in {"saving", "embed", "finalize", "exit"}

\* save_posts has written the index in this run
IndexWritten == pc_b \in {"embed", "finalize", "exit"} /\ saved_ids # <<>>

\* C27: in one run of bulk import the ids that save_posts returns are
\* pairwise distinct and every fetched URL has its own post file and index
\* entry: two different URLs of the export never overwrite each other's
\* post, and as many index entries are there as posts are reported imported.
C27_SavedIdsAreDistinct ==
  InOrAfterSaveLoop =>
    /\ \A j, k \in 1..Len(saved_ids) : saved_ids[j] = saved_ids[k] => j = k
    /\ \A k \in 1..Len(saved_ids) : post_files[saved_ids[k]].url = successes[k].url
    /\ IndexWritten =>
         /\ Range(saved_ids) \subseteq index_posts
         /\ Cardinality(index_posts) >= Len(saved_ids)

\* ------------------------------------------------------------------------
\* Properties of the statistics of migrate_posts
\* ------------------------------------------------------------------------
\* C28: at the end of migrate_posts every post file found is counted in
\* exactly one of migrated, skipped and errors: the three add up to the
\* total number of files, whichever step of an item failed.
C28_EveryFileCountedOnce ==
  pc_m = "done" =>
    /\ stats.total = Len(m_files)
    /\ stats.migrated + stats.skipped + stats.errors = stats.total

EmbeddingsDone == run = 1 /\ pc_b \in {"finalize", "exit"}

\* the posts of this run that were embedded and indexed
EmbeddedNow == IF EmbeddingsDone THEN Range(saved_ids) \cap vector_ids ELSE {}

\* C30: the text embedded and indexed for a bulk-imported post is built
\* from the content and the author handle that its post file holds (and from
\* its tags and topics, when there are any), and the post is indexed with
\* that content; two imported posts of different content are embedded from
\* different texts.
C30_EmbeddedFromSavedContent ==
  /\ \A i \in EmbeddedNow :
       /\ vector_docs[i].content = post_files[i].content
       /\ vector_docs[i].embed_text.content = post_files[i].content
       /\ vector_docs[i].embed_text.author_handle = post_files[i].author
  /\ \A i, j \in EmbeddedNow :
       post_files[i].content # post_files[j].content =>
         vector_docs[i].embed_text # vector_docs[j].embed_text

====
